---- MODULE Spec2Model ----
(***************************************************************************)
(* State-machine model of the audio capture pipeline of the music-removal  *)
(* extension:                                                              *)
(*   - CaptureProcessor (audio-worklets/capture-processor.js): the frame   *)
(*     accumulator that turns render quanta into fixed-size chunks;        *)
(*   - OffscreenAudioProcessor and its message listener (offscreen):       *)
(*     chunk validation and forwarding, start/stop of processing;          *)
(*   - TabCaptureManager and its message listener (background): source     *)
(*     acquisition and release;                                            *)
(*   - AudioChunkValidator (shared): the full validator.                   *)
(*                                                                         *)
(* Numbers.  Sample amplitudes are integers in units of 1/SCALE, so that   *)
(* 1.0 is SCALE and 0.5 is 1.  NaN is a sentinel that every comparison     *)
(* treats as JavaScript does (all of <, >, == are false on NaN).           *)
(* sequenceNumber is kept in halves (2*n is the integer n, an odd value is *)
(* a non-integer).  rmsLevel = sqrt(q) is kept as its radicand q, a pair   *)
(* <<num, den>>: den > 0 for a number (a negative num stands for a         *)
(* negative level) and <<0, 0>> for NaN.                                   *)
(***************************************************************************)
EXTENDS Integers, Sequences, FiniteSets, TLC

VARIABLES
    \* ---- CaptureProcessor (one instance) ----
    chunkSize,              \* this.chunkSize
    chunkBuffer,            \* this.chunkBuffer: one sample list per channel
    sequenceNumber,         \* this.sequenceNumber
    totalSamplesProcessed,  \* this.totalSamplesProcessed
    lastChunkTime,          \* this.lastChunkTime
    currentTime,            \* AudioWorkletGlobalScope.currentTime, in render quanta
    posted,                 \* messages sent with this.port.postMessage, in order
    fed,                    \* history: per channel, every sample handed to process()
    threw,                  \* process() raised an exception (the processor is dead)
    calls,                  \* history: number of process() calls made
    idleCalls,              \* history: number of those calls that had no input
    inputChannels,          \* history: channel count of the last input that had any
    \* ---- the validators, applied to one chunk object ----
    vchunk,                 \* the object handed to the validators
    vroot,                  \* what is handed over: that object, null or undefined
    vquick,                 \* result of AudioChunkValidator.quickValidate
    vdone,                  \* the validators have run
    vcontract,              \* result of OffscreenAudioProcessor.validateChunkContract
    vvalidate,              \* isValid of AudioChunkValidator.validate
    \* ---- OffscreenAudioProcessor and the offscreen message listener ----
    audioContext,           \* this.audioContext: 0 (null) or the id of the context
    contexts,               \* number of AudioContexts created so far
    moduleLoaded,           \* contexts whose addModule() has resolved
    sourceNode,             \* this.sourceNode: 0 (null) or the id of the node
    captureNode,            \* this.captureNode: 0 (null) or the id of the worklet node
    chunksReceived,         \* this.chunksReceived
    startTime,              \* this.startTime: 0, or 1 for a recorded performance.now()
    starts,                 \* history: number of startProcessing() calls made
    invocations,            \* the startProcessing() calls in progress, each at an await
    worklets,               \* the CaptureProcessor instances created so far
    ports,                  \* per worklet, the messages posted and not yet dispatched
    delivered,              \* history: the chunks passed to sendToPhase2, in order
    handled,                \* history: the chunks passed to handleAudioChunk, in order
    epoch,                  \* history: number of disconnect() calls so far
    \* ---- TabCaptureManager and the background message listener ----
    currentStream,          \* this.currentStream: 0 (null) or the id of the stream
    currentTabId,           \* this.currentTabId: 0 (null) or the tab's id
    offscreenDocumentExists,\* this.offscreenDocumentExists
    streams,                \* the MediaStreams captured so far: track.stop() calls on each
    offscreenDocuments,     \* offscreen documents the browser holds for the extension
    requests,               \* the START_CAPTURE requests received, where each one stands
                            \* (stopSince: a STOP_CAPTURE was handled after it arrived)
    sentMessages,           \* history: chrome.runtime.sendMessage calls, in order
    stopCalls,              \* history: number of STOP_CAPTURE requests handled
    afterStop,              \* history: the last handler step taken was a stopCapture()
    lastReply,              \* history: the message answered at once in the last step, and the answers
    \* ---- OffscreenAudioProcessor: stream error handling (ROADMAP, Task 1.11) ----
    reconnectAttempts,      \* this.reconnectAttempts
    recovering,             \* handleStreamError() calls waiting for their backoff timer
    waits,                  \* history: the backoff delays (ms) of the attempts, in order
    restartsSent,           \* history: number of RESTART_CAPTURE messages sent
    failuresNotified,       \* history: number of CAPTURE_FAILED messages sent
    streamErrors,           \* history: number of stream errors handled
    \* ---- Phase2Bridge (ROADMAP, Task 1.9) ----
    messageHandlers,        \* this.messageHandlers: the message types that have a handler
    runtimeQueue,           \* messages given to chrome.runtime.sendMessage, not yet received
    handlerCalls,           \* history: the data handed to local handlers, in order
    bridgeSends,            \* history: number of sendAudioChunk() calls
    \* ---- PerformanceMonitor (src/README.md) ----
    measurements,           \* Map<string, number[]>: a function on the metrics that have a list
    recorded,               \* history: every value passed to record() since construction or
                            \* the last clear(), per metric, in call order
    clears,                 \* history: number of clear() calls
    lastStats,              \* history: the getStats() call made in the last step, and what it returned
    \* ---- AudioCapturePopup.startMonitoring (src/src/popup/index.tsx) ----
    seenIsCapturing,        \* captureState.isCapturing as the interval callback's closure holds it
    monitoringInterval,     \* TRUE while the interval set by startMonitoring() is not cleared
    chunkCount,             \* the callback's counter
    elapsedMs,              \* Date.now() - startTime at the last callback, in ms
    ticks,                  \* history: runs of the interval callback
    captureState,           \* chunksProcessed, audioLevel (hundredths), chunkRate (fraction)
    performanceMetrics,     \* totalChunks, avgChunkInterval and timingConsistency (fractions)
    isCapturing,            \* captureState.isCapturing of the popup's state
    popupError,             \* captureState.error ("<undefined>" when there is none)
    popupStarts,            \* history: number of startCapture() calls that got their answer
    \* ---- chrome.runtime messages of the popup, and the listeners that receive them ----
    offscreenListening,     \* the offscreen document is loaded: its onMessage listener is registered
    popupMessage,           \* the popup's sendMessage in progress: to whom it is still to be
                            \* delivered, whether startCapture() runs for it, whether it is answered
    popupResponses          \* history: what each "await chrome.runtime.sendMessage" of the popup
                            \* resolved to, and the component whose sendResponse that was

wvars == <<chunkSize, chunkBuffer, sequenceNumber, totalSamplesProcessed,
           lastChunkTime, currentTime, posted, fed, threw, calls, idleCalls,
           inputChannels>>

vvars == <<vchunk, vroot, vquick, vdone, vcontract, vvalidate>>

ovars == <<audioContext, contexts, moduleLoaded, sourceNode, captureNode,
           chunksReceived, startTime, starts, invocations, worklets, ports,
           delivered, handled, epoch>>

bvars == <<currentStream, currentTabId, offscreenDocumentExists, streams,
           offscreenDocuments, requests, sentMessages, stopCalls, afterStop,
           lastReply>>

rvars == <<reconnectAttempts, recovering, waits, restartsSent, failuresNotified, streamErrors>>

pvars == <<messageHandlers, runtimeQueue, handlerCalls, bridgeSends>>

mvars == <<measurements, recorded, clears, lastStats>>

uvars == <<seenIsCapturing, monitoringInterval, chunkCount, elapsedMs, ticks, captureState, performanceMetrics,
           isCapturing, popupError, popupStarts>>

xvars == <<offscreenListening, popupMessage, popupResponses>>

vars == <<wvars, vvars, ovars, bvars, rvars, pvars, mvars, uvars, xvars>>

\* what a step of one component leaves alone: the other components
exceptWorklet == <<vvars, ovars, bvars, rvars, pvars, mvars, uvars, xvars>>
exceptValidate == <<wvars, ovars, bvars, rvars, pvars, mvars, uvars, xvars>>
exceptOffscreen == <<wvars, vvars, bvars, rvars, pvars, mvars, uvars, xvars>>
exceptBackground == <<wvars, vvars, ovars, rvars, pvars, mvars, uvars, xvars>>
exceptReconnect == <<wvars, vvars, ovars, bvars, pvars, mvars, uvars, xvars>>
exceptBridge == <<wvars, vvars, ovars, bvars, rvars, mvars, uvars, xvars>>
exceptMonitor == <<wvars, vvars, ovars, bvars, rvars, pvars, uvars, xvars>>
exceptPopup == <<wvars, vvars, ovars, bvars, rvars, pvars, mvars, xvars>>
exceptRouting == <<wvars, vvars, ovars, bvars, rvars, pvars, mvars, uvars>>

-----------------------------------------------------------------------------
(* Bounds of the model *)

\* Stand-in for the configured chunk size (2048 in the source).
ChunkSize == 2
\* Longest input frame handed to process() (128 in a browser).
MaxFrame == 2
\* Number of process() calls explored.
MaxCalls == 3

\* Number of fields in which a validated object differs from a well-formed chunk.
MaxDeviations == 2

\* START_AUDIO_PROCESSING messages the offscreen document receives.
MaxStarts == 2
\* STOP_AUDIO_PROCESSING messages the offscreen document receives.
MaxStops == 1
\* Chunks posted by all worklets of the offscreen document together.
MaxPosts == 2

\* START_CAPTURE requests the background receives.
MaxStartCaptures == 2
\* STOP_CAPTURE requests the background receives.
MaxStopCaptures == 2

\* this.maxReconnectAttempts (5 in the source), at the value the claim about
\* it configures.
maxReconnectAttempts == 3
\* Stream errors handed to handleStreamError.
MaxStreamErrors == 5

\* SystemConfig.messageQueueSize (default 100).
messageQueueSize == 2
\* Phase2Bridge.sendAudioChunk() calls.
MaxSends == 4
\* the number of measurements record() keeps per metric (100 in the source)
historySize == 3
\* record() calls made on one PerformanceMonitor
MaxRecords == 5
\* clear() calls on the performance monitor.
MaxClears == 1
\* Significant bits of a number of the performance monitor (53 in a double).
Precision == 3
\* Runs of the popup's interval callback.
MaxTicks == 6
\* startCapture() calls of the popup.
MaxPopupStarts == 6
\* Messages the popup sends (START_CAPTURE, STOP_CAPTURE, GET_STATUS).
MaxPopupMessages == 3

(* Program constants *)
MAX_CHANNELS == 2
SCALE == 2
NaN == 99
SAMPLE_RATE == 48000
\* The chunk length the popup's target interval is derived from.
FRAME_LENGTH == 2048

IsNaN(x) == x = NaN
Abs(x) == IF x < 0 THEN -x ELSE x

RECURSIVE SumSeq(_)
SumSeq(s) == IF s = <<>> THEN 0 ELSE Head(s) + SumSeq(Tail(s))

RECURSIVE Concat(_)
Concat(ss) == IF ss = <<>> THEN <<>> ELSE Head(ss) \o Concat(Tail(ss))

-----------------------------------------------------------------------------
(* Inputs of process(): inputs[0] is a list of 0..2 channels, every channel *)
(* of the same length.  Each channel carries one of a few sample patterns. *)

\* the values "Math.random().toString(36).substr(2, 9)" contributes to a chunkId
RandomSuffixes == {1, 2}

FillKinds == {"alt", "nan"}

\* the i-th sample of a channel filled with pattern k
PatternSample(k, i) ==
    CASE k = "alt" -> IF i % 2 = 1 THEN 1 ELSE -1
      [] k = "nan" -> IF i = 1 THEN NaN ELSE SCALE
      [] k = "hot" -> SCALE + 1

ChannelData(k, n) == [i \in 1..n |-> PatternSample(k, i)]

InputFrames ==
    {<<>>}
    \cup {<<ChannelData(k, n)>> : k \in FillKinds, n \in 1..MaxFrame}
    \cup {<<ChannelData(k[1], n), ChannelData(k[2], n)>> :
             k \in FillKinds \X FillKinds, n \in 1..MaxFrame}

-----------------------------------------------------------------------------
(* CaptureProcessor *)

\* mutant: the samples are summed without being squared
calculateRMS_NoSquare(samples) ==
    IF \E i \in 1..Len(samples) : IsNaN(samples[i])
    THEN <<0, 0>>
    ELSE <<SumSeq(samples), SCALE * SCALE * Len(samples)>>

\* calculateRMS: sqrt(sumOfSquares / samples.length), kept as the radicand
\* <<sumOfSquares, SCALE^2 * length>>; NaN (<<0, 0>>) as soon as one sample is.
calculateRMS(samples) ==
    IF \E i \in 1..Len(samples) : IsNaN(samples[i])
    THEN <<0, 0>>
    ELSE <<SumSeq([i \in 1..Len(samples) |-> samples[i] * samples[i]]),
           SCALE * SCALE * Len(samples)>>

\* calculatePeak: the largest |sample|; "absoluteValue > peak" is false on NaN,
\* so NaN samples are skipped.
RECURSIVE calculatePeakFrom(_, _)
calculatePeakFrom(samples, peak) ==
    IF samples = <<>> THEN peak
    ELSE LET s == Head(samples)
             p == IF ~IsNaN(s) /\ Abs(s) > peak THEN Abs(s) ELSE peak
         IN  calculatePeakFrom(Tail(samples), p)

calculatePeak(samples) == calculatePeakFrom(samples, 0)

\* "this.chunkBuffer[ch].shift() || 0.0", i times over: the first n samples of
\* the buffer, a falsy value (undefined when the buffer ran out, NaN, 0)
\* replaced by 0.
ShiftOrZero(buf, i) ==
    IF i > Len(buf) \/ IsNaN(buf[i]) THEN 0 ELSE buf[i]

\* mutant: copies only the samples the buffer holds (no padding)
TakeChunk_NoPad(buf, n) ==
    [i \in 1..(IF Len(buf) < n THEN Len(buf) ELSE n) |-> ShiftOrZero(buf, i)]

TakeChunk(buf, n) == [i \in 1..n |-> ShiftOrZero(buf, i)]

DropChunk(buf, n) == IF Len(buf) <= n THEN <<>> ELSE SubSeq(buf, n + 1, Len(buf))

\* shouldSendChunk
shouldSendChunk(buffer, size) ==
    Len(buffer) > 0 /\ Len(buffer[1]) >= size

\* mutant: the counter is incremented before the chunk is built
MakeChunk_IncrementFirst(buffer, size, seq, now, rnd) ==
    LET samples == [ch \in 1..Len(buffer) |-> TakeChunk(buffer[ch], size)]
    IN  [samples        |-> samples,
         sampleRate     |-> SAMPLE_RATE,
         channels       |-> Len(buffer),
         frameLength    |-> size,
         timestamp      |-> now,
         chunkId        |-> <<now, rnd>>,
         sequenceNumber |-> 2 * (seq + 1),
         rmsLevel       |-> calculateRMS(samples[1]),
         peakLevel      |-> calculatePeak(samples[1])]

\* mutant: the chunk carries the rate of the capture device, not the
\* configured one
MakeChunk_DeviceRate(buffer, size, seq, now, rnd) ==
    LET samples == [ch \in 1..Len(buffer) |-> TakeChunk(buffer[ch], size)]
    IN  [samples        |-> samples,
         sampleRate     |-> 44100,
         channels       |-> Len(buffer),
         frameLength    |-> size,
         timestamp      |-> now,
         chunkId        |-> <<now, rnd>>,
         sequenceNumber |-> 2 * seq,
         rmsLevel       |-> calculateRMS(samples[1]),
         peakLevel      |-> calculatePeak(samples[1])]

\* the chunk sendAudioChunk builds from the buffer
MakeChunk(buffer, size, seq, now, rnd) ==
    LET samples == [ch \in 1..Len(buffer) |-> TakeChunk(buffer[ch], size)]
    IN  [samples        |-> samples,
         sampleRate     |-> SAMPLE_RATE,
         channels       |-> Len(buffer),
         frameLength    |-> size,
         timestamp      |-> now,
         chunkId        |-> <<now, rnd>>,
         sequenceNumber |-> 2 * seq,
         rmsLevel       |-> calculateRMS(samples[1]),
         peakLevel      |-> calculatePeak(samples[1])]

\* accumulateAudio: the buffer after the frame was appended.  A channel the
\* buffer has no list for makes "this.chunkBuffer[ch].push" raise a TypeError,
\* after the channels before it were appended.
accumulateBuffer(buffer, channelData) ==
    LET base == IF Len(buffer) = 0
                THEN [ch \in 1..Len(channelData) |-> <<>>]
                ELSE buffer
    IN  [ch \in 1..Len(base) |->
            IF ch <= Len(channelData) THEN base[ch] \o channelData[ch] ELSE base[ch]]

accumulateThrows(buffer, channelData) ==
    Len(buffer) > 0 /\ Len(channelData) > Len(buffer)

\* the buffer after sendAudioChunk shifted one chunk out of every channel
bufferAfterSend(buffer, size) ==
    [ch \in 1..Len(buffer) |-> DropChunk(buffer[ch], size)]

AudioChunkMessage(chunk) == [type |-> "audioChunk", chunk |-> chunk]
StatsMessage == [type |-> "stats"]

\* process() from "this.accumulateAudio(input)" on: accumulateAudio, then
\* sendAudioChunk when shouldSendChunk
ProcessFrame(input) ==
    LET acc == accumulateBuffer(chunkBuffer, input)
    IN  IF accumulateThrows(chunkBuffer, input)
        THEN /\ chunkBuffer' = acc
             /\ threw' = TRUE
             /\ UNCHANGED <<sequenceNumber, totalSamplesProcessed,
                            lastChunkTime, posted>>
        ELSE /\ totalSamplesProcessed' =
                    totalSamplesProcessed + Len(input[1])
             /\ UNCHANGED threw
             /\ IF shouldSendChunk(acc, chunkSize)
                THEN \E rnd \in RandomSuffixes :
                     /\ posted' = Append(posted, AudioChunkMessage(
                            MakeChunk(acc, chunkSize, sequenceNumber,
                                      currentTime, rnd)))
                     /\ chunkBuffer' = bufferAfterSend(acc, chunkSize)
                     /\ sequenceNumber' = sequenceNumber + 1
                     /\ lastChunkTime' = currentTime
                ELSE /\ chunkBuffer' = acc
                     /\ UNCHANGED <<sequenceNumber, lastChunkTime, posted>>

\* what every process() call does to the history and the clock
ProcessCalled(input) ==
    /\ ~threw
    /\ calls < MaxCalls
    /\ calls' = calls + 1
    /\ idleCalls' = IF Len(input) = 0 THEN idleCalls + 1 ELSE idleCalls
    /\ inputChannels' = IF Len(input) = 0 THEN inputChannels ELSE Len(input)
    /\ currentTime' = currentTime + 1
    /\ fed' = [ch \in 1..2 |->
                  IF ch <= Len(input) THEN fed[ch] \o input[ch] ELSE fed[ch]]
    /\ UNCHANGED <<chunkSize, exceptWorklet>>

\* mutant: a call without input accumulates one sample of silence
Process_SilenceForNoInput(input) ==
    /\ ProcessCalled(input)
    /\ ProcessFrame(IF Len(input) = 0 THEN <<<<0>>>> ELSE input)

\* process(inputs, outputs, parameters)
Process(input) ==
    /\ ProcessCalled(input)
    /\ IF Len(input) = 0
       THEN \* no input: return true
            UNCHANGED <<chunkBuffer, sequenceNumber, totalSamplesProcessed,
                        lastChunkTime, posted, threw>>
       ELSE ProcessFrame(input)

\* constructor(options): chunkSize from processorOptions, empty buffer,
\* counters at 0, one "stats" message posted
InitWorklet ==
    /\ chunkSize = ChunkSize
    /\ chunkBuffer = <<>>
    /\ sequenceNumber = 0
    /\ totalSamplesProcessed = 0
    /\ lastChunkTime = 0
    /\ currentTime = 0
    /\ posted = <<StatsMessage>>
    /\ fed = <<<<>>, <<>>>>
    /\ threw = FALSE
    /\ calls = 0
    /\ idleCalls = 0
    /\ inputChannels = 0

\* constructor(options) for any processorOptions.chunkSize from 1 up to the
\* configured one
InitWorkletSized ==
    /\ chunkSize \in 1..ChunkSize
    /\ chunkBuffer = <<>>
    /\ sequenceNumber = 0
    /\ totalSamplesProcessed = 0
    /\ lastChunkTime = 0
    /\ currentTime = 0
    /\ posted = <<StatsMessage>>
    /\ fed = <<<<>>, <<>>>>
    /\ threw = FALSE
    /\ calls = 0
    /\ idleCalls = 0
    /\ inputChannels = 0

\* the chunks posted so far, in emission order
PostedChunks ==
    LET ms == SelectSeq(posted, LAMBDA m : m.type = "audioChunk")
    IN  [i \in 1..Len(ms) |-> ms[i].chunk]

-----------------------------------------------------------------------------
(* Claims about CaptureProcessor, checked under SpecWorklet *)

\* the samples of channel ch of every chunk posted so far, concatenated
EmittedSamples(ch) ==
    Concat([i \in 1..Len(PostedChunks) |->
               IF ch <= Len(PostedChunks[i].samples)
               THEN PostedChunks[i].samples[ch] ELSE <<>>])

BufferedSamples(ch) == IF ch <= Len(chunkBuffer) THEN chunkBuffer[ch] ELSE <<>>

\* C1: every chunk posted by sendAudioChunk has as many sample sequences as
\* its declared channel count, and every sequence has exactly frameLength
\* samples, which is the configured chunkSize.
C1_ChunkShape ==
    \A i \in 1..Len(PostedChunks) :
        LET c == PostedChunks[i]
        IN  /\ Len(c.samples) = c.channels
            /\ c.frameLength = chunkSize
            /\ \A ch \in 1..Len(c.samples) : Len(c.samples[ch]) = c.frameLength

\* C1 witness: a stereo chunk was posted although the second channel had
\* received fewer samples than the first (the input went from stereo to mono).
C1_Witness ==
    /\ Len(PostedChunks) >= 1
    /\ PostedChunks[Len(PostedChunks)].channels = 2
    /\ Len(fed[2]) < Len(fed[1])

\* C2: the sequence numbers of the posted chunks are 0, 1, 2, ... in emission
\* order, whatever the inputs of process() were (empty inputs included).
C2_SequenceNumbers ==
    \A i \in 1..Len(PostedChunks) : PostedChunks[i].sequenceNumber = 2 * (i - 1)

\* C2 witness: two chunks were posted in a run that also had a call without
\* input.
C2_Witness == Len(PostedChunks) >= 2 /\ idleCalls >= 1

\* C3: the accumulator conserves samples: per channel, the samples of the
\* emitted chunks followed by the samples still buffered are the input samples
\* in order (nothing dropped, duplicated, reordered or synthesized), and a
\* chunk has been emitted for every chunkSize samples received.
C3_Conservation ==
    /\ \A ch \in 1..2 : EmittedSamples(ch) \o BufferedSamples(ch) = fed[ch]
    /\ Len(PostedChunks) = Len(fed[1]) \div chunkSize

\* C11: when the channel count of the input changes between process() calls
\* the accumulator does not fail and its per-channel buffers follow the new
\* channel count.
C11_ChannelChangeHandled ==
    inputChannels # 0 => (~threw /\ Len(chunkBuffer) = inputChannels)

\* C12: a process() call without input leaves chunkBuffer, sequenceNumber,
\* totalSamplesProcessed and lastChunkTime as they were, posts nothing and
\* does not fail.
C12_NoInputNoEffect ==
    [][idleCalls' = idleCalls + 1
          => UNCHANGED <<chunkBuffer, sequenceNumber, totalSamplesProcessed,
                         lastChunkTime, posted, threw>>]_vars

\* C12 witness: the first call posted a chunk, a later call had no input,
\* and samples are waiting in the buffer.
C12_Witness ==
    /\ idleCalls >= 1
    /\ Len(PostedChunks) >= 1
    /\ PostedChunks[1].timestamp = 0
    /\ ~threw
    /\ chunkBuffer # <<>> /\ chunkBuffer[1] # <<>>

RECURSIVE C14_SumOfSquares(_, _)
C14_SumOfSquares(s, n) ==
    IF n = 0 THEN 0 ELSE s[n] * s[n] + C14_SumOfSquares(s, n - 1)

C14_Alternating(s) ==
    \A j \in 1..Len(s) : s[j] = IF j % 2 = 1 THEN SCALE \div 2 ELSE -(SCALE \div 2)

\* C14: in every posted chunk rmsLevel is sqrt(sum of squares of samples[0] /
\* frameLength) and peakLevel is the largest absolute value in samples[0];
\* both are 0.5 when samples[0] alternates 0.5, -0.5.
C14_Levels ==
    \A i \in 1..Len(PostedChunks) :
        LET c == PostedChunks[i]
            s == c.samples[1]
        IN  /\ c.rmsLevel = <<C14_SumOfSquares(s, c.frameLength),
                              SCALE * SCALE * c.frameLength>>
            /\ \A j \in 1..Len(s) : Abs(s[j]) <= c.peakLevel
            /\ \E j \in 1..Len(s) : Abs(s[j]) = c.peakLevel
            /\ C14_Alternating(s) =>
                   /\ 4 * c.rmsLevel[1] = c.rmsLevel[2]
                   /\ 2 * c.peakLevel = SCALE

\* C14 witness: a stereo chunk was posted whose first channel alternates 0.5,
\* -0.5 and whose second channel holds other samples.
C14_Witness ==
    \E i \in 1..Len(PostedChunks) :
        LET c == PostedChunks[i]
        IN  /\ c.channels = 2
            /\ C14_Alternating(c.samples[1])
            /\ c.samples[2] # c.samples[1]
            /\ c.peakLevel < calculatePeak(c.samples[2])

-----------------------------------------------------------------------------
(* Chunk objects as the validators see them.  A property holds a JavaScript *)
(* value [t |-> typeof, v |-> value]; "present" is the set of own property  *)
(* names ("field in chunk").  A channel of samples is a Float32Array        *)
(* (f32 = TRUE) or some other list.                                        *)

Num(n) == [t |-> "number", v |-> n]
Str(x) == [t |-> "string", v |-> x]
\* undefined, as the value of property f (v is a placeholder of f's kind)
Undefined(f) ==
    [t |-> "undefined",
     v |-> IF f \in {"samples", "chunkId"} THEN <<>>
           ELSE IF f = "rmsLevel" THEN <<0, 0>> ELSE 0]
Arr(x) == [t |-> "array", v |-> x]
F32(data) == [f32 |-> TRUE, data |-> data]
PlainList(data) == [f32 |-> FALSE, data |-> data]

RequiredFields ==
    <<"samples", "sampleRate", "channels", "frameLength", "timestamp",
      "chunkId", "sequenceNumber">>

AllFields == {RequiredFields[i] : i \in 1..Len(RequiredFields)}
                 \cup {"rmsLevel", "peakLevel"}

\* chunk.field: undefined when the object has no such property
Get(chunk, f) == IF f \in chunk.present THEN chunk[f] ELSE Undefined(f)

\* the object the port delivers for a chunk built by sendAudioChunk
\* (structured clone: every property present, Float32Array channels)
Wire(c) ==
    [present        |-> AllFields,
     samples        |-> Arr([ch \in 1..Len(c.samples) |-> F32(c.samples[ch])]),
     sampleRate     |-> Num(c.sampleRate),
     channels       |-> Num(c.channels),
     frameLength    |-> Num(c.frameLength),
     timestamp      |-> Num(c.timestamp),
     chunkId        |-> Str(c.chunkId),
     sequenceNumber |-> Num(c.sequenceNumber),
     rmsLevel       |-> Num(c.rmsLevel),
     peakLevel      |-> Num(c.peakLevel)]

\* comparisons of a level kept as a radicand <<num, den>> (NaN is <<0, 0>>)
RootIsNaN(r) == r[2] = 0
RootLtZero(r) == ~RootIsNaN(r) /\ r[1] < 0
RootGtOne(r) == ~RootIsNaN(r) /\ r[1] > r[2]

\* Number.isInteger on a value kept in halves
IsIntegerHalves(h) == h % 2 = 0

-----------------------------------------------------------------------------
(* OffscreenAudioProcessor.validateChunkContract *)

\* "isNaN(sample) || sample < -1.0 || sample > 1.0"
BadSample(x) == IsNaN(x) \/ x < -SCALE \/ x > SCALE

\* the checks made on one channel of chunk.samples
ChannelOk(channelData) ==
    /\ channelData.f32
    /\ Len(channelData.data) = ChunkSize
    /\ \A j \in 1..Len(channelData.data) : ~BadSample(channelData.data[j])

\* the optional-level check: "!== undefined", then typeof, then the range
LevelOkRoot(x) ==
    x.t = "undefined" \/ (x.t = "number" /\ ~RootLtZero(x.v) /\ ~RootGtOne(x.v))

LevelOkPeak(x) ==
    x.t = "undefined" \/ (x.t = "number" /\ ~(x.v < 0) /\ ~(x.v > SCALE))

validateChunkContract(chunk) ==
    /\ \A i \in 1..Len(RequiredFields) : RequiredFields[i] \in chunk.present
    /\ Get(chunk, "sampleRate") = Num(SAMPLE_RATE)
    /\ Get(chunk, "frameLength") = Num(ChunkSize)
    /\ Get(chunk, "samples").t = "array"
    /\ Len(Get(chunk, "samples").v) # 0
    /\ \A i \in 1..Len(Get(chunk, "samples").v) :
           ChannelOk(Get(chunk, "samples").v[i])
    /\ Get(chunk, "channels") = Num(Len(Get(chunk, "samples").v))
    /\ Get(chunk, "timestamp").t = "number"
    /\ ~(Get(chunk, "timestamp").v < 0)
    /\ Get(chunk, "chunkId").t = "string"
    /\ Get(chunk, "chunkId").v # <<>>
    /\ Get(chunk, "sequenceNumber").t = "number"
    /\ ~(Get(chunk, "sequenceNumber").v < 0)
    /\ IsIntegerHalves(Get(chunk, "sequenceNumber").v)
    /\ LevelOkRoot(Get(chunk, "rmsLevel"))
    /\ LevelOkPeak(Get(chunk, "peakLevel"))

-----------------------------------------------------------------------------
(* AudioChunkValidator.validate: one conjunct per place that pushes an error *)

\* the per-channel check of validate: a Float32Array of chunk.frameLength samples
ValidateChannelOk(channelData, frameLength) ==
    /\ channelData.f32
    /\ Num(Len(channelData.data)) = frameLength

\* chunk.samples?.length
SamplesLength(chunk) ==
    IF Get(chunk, "samples").t = "array"
    THEN Num(Len(Get(chunk, "samples").v))
    ELSE Undefined("channels")

\* '"rmsLevel" in chunk && (typeof ... !== "number" || < 0 || > 1)' pushes an error
ValidateLevelOkRoot(chunk) ==
    ~("rmsLevel" \in chunk.present
        /\ (chunk.rmsLevel.t # "number"
              \/ RootLtZero(chunk.rmsLevel.v) \/ RootGtOne(chunk.rmsLevel.v)))

ValidateLevelOkPeak(chunk) ==
    ~("peakLevel" \in chunk.present
        /\ (chunk.peakLevel.t # "number"
              \/ chunk.peakLevel.v < 0 \/ chunk.peakLevel.v > SCALE))

validate(chunk) ==
    /\ \A i \in 1..Len(RequiredFields) : RequiredFields[i] \in chunk.present
    /\ Get(chunk, "samples").t = "array"
    /\ Len(Get(chunk, "samples").v) # 0
    /\ \A i \in 1..Len(Get(chunk, "samples").v) :
           ValidateChannelOk(Get(chunk, "samples").v[i], Get(chunk, "frameLength"))
    /\ Get(chunk, "sampleRate") = Num(SAMPLE_RATE)
    /\ Get(chunk, "channels") = SamplesLength(chunk)
    /\ ~(Get(chunk, "channels").t = "number"
           /\ (Get(chunk, "channels").v < 1 \/ Get(chunk, "channels").v > MAX_CHANNELS))
    /\ Get(chunk, "frameLength") = Num(ChunkSize)
    /\ Get(chunk, "timestamp").t = "number"
    /\ ~(Get(chunk, "timestamp").v <= 0)
    /\ Get(chunk, "chunkId").t = "string"
    /\ Get(chunk, "chunkId").v # <<>>
    /\ Get(chunk, "sequenceNumber").t = "number"
    /\ ~(Get(chunk, "sequenceNumber").v < 0)
    /\ ValidateLevelOkRoot(chunk)
    /\ ValidateLevelOkPeak(chunk)

-----------------------------------------------------------------------------
(* AudioChunkValidator.quickValidate.  "a && b && ..." evaluates to the     *)
(* first falsy operand, else to the last operand.                          *)

Bool(b) == [t |-> "boolean", v |-> b]

\* quickValidate with the level check of the full validators added to it
quickValidateFields_WithLevels(chunk) ==
    Bool(/\ Get(chunk, "samples").t = "array"
         /\ Len(Get(chunk, "samples").v) > 0
         /\ Get(chunk, "sampleRate") = Num(SAMPLE_RATE)
         /\ Get(chunk, "frameLength") = Num(ChunkSize)
         /\ Get(chunk, "chunkId").t = "string"
         /\ Get(chunk, "sequenceNumber").t = "number"
         /\ Get(chunk, "peakLevel").t = "number")

\* what the chain after "chunk &&" evaluates to
quickValidateFields(chunk) ==
    Bool(/\ Get(chunk, "samples").t = "array"
         /\ Len(Get(chunk, "samples").v) > 0
         /\ Get(chunk, "sampleRate") = Num(SAMPLE_RATE)
         /\ Get(chunk, "frameLength") = Num(ChunkSize)
         /\ Get(chunk, "chunkId").t = "string"
         /\ Get(chunk, "sequenceNumber").t = "number")

\* quickValidate(chunk), for chunk null or undefined (root names which) or an
\* object
quickValidate(root, chunk) ==
    IF root \in {"null", "undefined"}
    THEN [t |-> root, v |-> FALSE]
    ELSE quickValidateFields(chunk)

-----------------------------------------------------------------------------
(* The objects handed to the validators: a well-formed chunk, changed in at *)
(* most MaxDeviations properties.                                          *)

GoodChannel == [i \in 1..ChunkSize |-> IF i % 2 = 1 THEN 1 ELSE -1]

WellFormedChunk ==
    Wire([samples        |-> <<GoodChannel>>,
          sampleRate     |-> SAMPLE_RATE,
          channels       |-> 1,
          frameLength    |-> ChunkSize,
          timestamp      |-> 1,
          chunkId        |-> <<1, 1>>,
          sequenceNumber |-> 2,
          rmsLevel       |-> <<ChunkSize, SCALE * SCALE * ChunkSize>>,
          peakLevel      |-> 1])

\* the values a property is changed to; "absent" removes the property
Alternatives(f) ==
    CASE f = "samples" ->
            {Arr(<<>>),
             Arr(<<F32(GoodChannel), F32(GoodChannel)>>),
             Arr(<<F32(GoodChannel), F32(GoodChannel), F32(GoodChannel)>>),
             Arr(<<PlainList(GoodChannel)>>),
             Arr(<<F32(Tail(GoodChannel))>>),
             Arr(<<F32(Append(GoodChannel, 1))>>),
             Arr(<<F32([GoodChannel EXCEPT ![1] = NaN])>>),
             Arr(<<F32([GoodChannel EXCEPT ![1] = SCALE + 1])>>),
             Arr(<<F32([GoodChannel EXCEPT ![1] = -(SCALE + 1)])>>),
             [t |-> "other", v |-> <<>>]}
      [] f = "sampleRate" -> {Num(44100)}
      [] f = "channels" -> {Num(0), Num(2), Num(3)}
      [] f = "frameLength" -> {Num(ChunkSize - 1), Num(ChunkSize + 1)}
      [] f = "timestamp" -> {Num(-1), Num(0)}
      [] f = "chunkId" -> {Str(<<>>), [t |-> "number", v |-> <<1>>]}
      [] f = "sequenceNumber" -> {Num(-2), Num(0), Num(1), Num(3)}
      [] f = "rmsLevel" ->
            {Num(<<-1, 4>>), Num(<<5, 4>>), Num(<<0, 1>>), Num(<<1, 1>>),
             Undefined("rmsLevel")}
      [] f = "peakLevel" ->
            {Num(-1), Num(SCALE + 1), Num(0), Num(SCALE), Undefined("peakLevel")}

RECURSIVE Deviations(_)
Deviations(k) ==
    IF k = 0 THEN {WellFormedChunk}
    ELSE LET prev == Deviations(k - 1)
         IN  prev
             \cup {[c EXCEPT !.present = @ \ {f}, ![f] = Undefined(f)] :
                       c \in prev, f \in AllFields}
             \cup UNION {UNION {{[c EXCEPT ![f] = x] : x \in Alternatives(f)} :
                                    f \in c.present} : c \in prev}

ValidationInputs == Deviations(MaxDeviations)

InitValidate ==
    /\ \/ vroot = "object" /\ vchunk \in ValidationInputs
       \/ vroot \in {"null", "undefined"} /\ vchunk = WellFormedChunk
    /\ vquick = Bool(FALSE)
    /\ vdone = FALSE
    /\ vcontract = FALSE
    /\ vvalidate = FALSE

\* the validators are applied to the value.  For null and undefined
\* validate() answers "Chunk must be an object" and validateChunkContract
\* raises a TypeError at "field in chunk": neither accepts.
RunValidators ==
    /\ ~vdone
    /\ vdone' = TRUE
    /\ vcontract' = (vroot = "object" /\ validateChunkContract(vchunk))
    /\ vvalidate' = (vroot = "object" /\ validate(vchunk))
    /\ vquick' = quickValidate(vroot, vchunk)
    /\ UNCHANGED <<vchunk, vroot, exceptValidate>>

-----------------------------------------------------------------------------
(* OffscreenAudioProcessor and the offscreen chrome.runtime.onMessage       *)
(* listener.  A worklet is seen here at its port: it posts the chunks that  *)
(* sendAudioChunk builds, numbered by its own counter, while its context    *)
(* renders; what it posts waits in the port until the main thread           *)
(* dispatches it to captureNode.port.onmessage.                             *)

\* what a worklet of the offscreen document captures: sound within range, or
\* sound that exceeds full scale
CapturedKinds == {"alt", "hot"}

PostsSoFar ==
    SumSeq([w \in 1..Len(worklets) |-> worklets[w].sequenceNumber])

\* the listener receives START_AUDIO_PROCESSING: processor.startProcessing()
\* up to its first await (initializeAudio() when there is no context, else
\* getUserMedia())
RecvStartAudioProcessing ==
    /\ starts < MaxStarts
    /\ starts' = starts + 1
    /\ IF audioContext = 0
       THEN /\ contexts' = contexts + 1
            /\ audioContext' = contexts + 1
            /\ invocations' = Append(invocations, [pc |-> "addModule", ctx |-> contexts + 1])
       ELSE /\ invocations' = Append(invocations, [pc |-> "getUserMedia", ctx |-> audioContext])
            /\ UNCHANGED <<contexts, audioContext>>
    /\ UNCHANGED <<exceptOffscreen, moduleLoaded, sourceNode, captureNode,
                   chunksReceived, startTime, worklets, ports, delivered, handled,
                   epoch>>

\* the startProcessing() calls in progress once call i has returned or thrown
Returned(i) ==
    [j \in 1..(Len(invocations) - 1) |->
        IF j < i THEN invocations[j] ELSE invocations[j + 1]]

\* initializeAudio(): audioWorklet.addModule() resolves; startProcessing goes
\* on to getUserMedia()
AddModuleResolved(i) ==
    /\ invocations[i].pc = "addModule"
    /\ moduleLoaded' = moduleLoaded \cup {invocations[i].ctx}
    /\ invocations' = [invocations EXCEPT ![i].pc = "getUserMedia"]
    /\ UNCHANGED <<exceptOffscreen, starts, audioContext, contexts, sourceNode, captureNode, chunksReceived,
                   startTime, worklets, ports, delivered, handled, epoch>>

\* getUserMedia() rejects: startProcessing rethrows, the listener answers
\* {success: false}
GetUserMediaRejected(i) ==
    /\ invocations[i].pc = "getUserMedia"
    /\ invocations' = Returned(i)
    /\ UNCHANGED <<exceptOffscreen, starts, audioContext, contexts, moduleLoaded, sourceNode, captureNode,
                   chunksReceived, startTime, worklets, ports, delivered, handled,
                   epoch>>

\* getUserMedia() resolves: connectAudioStream(stream), then the listener
\* answers
GetUserMediaResolved(i) ==
    /\ invocations[i].pc = "getUserMedia"
    /\ UNCHANGED <<exceptOffscreen, starts, audioContext, contexts, moduleLoaded, chunksReceived, delivered,
                   handled, epoch>>
    /\ IF audioContext = 0
       THEN \* "AudioContext not initialized": return
            /\ invocations' = Returned(i)
            /\ UNCHANGED <<sourceNode, captureNode, startTime, worklets, ports>>
       ELSE IF audioContext \notin moduleLoaded
       THEN \* new AudioWorkletNode throws: the processor is not registered yet
            /\ sourceNode' = Len(worklets) + 1
            /\ invocations' = Returned(i)
            /\ UNCHANGED <<captureNode, startTime, worklets, ports>>
       ELSE /\ sourceNode' = Len(worklets) + 1
            /\ captureNode' = Len(worklets) + 1
            /\ worklets' = Append(worklets,
                   [ctx |-> audioContext, sequenceNumber |-> 0])
            /\ ports' = Append(ports, <<StatsMessage>>)
            /\ startTime' = 1
            /\ invocations' = Returned(i)

\* disconnect()
disconnect ==
    /\ sourceNode' = 0
    /\ captureNode' = 0
    /\ audioContext' = 0
    /\ chunksReceived' = 0
    /\ startTime' = 0

\* the listener receives STOP_AUDIO_PROCESSING: processor.disconnect() and
\* sendResponse({success: true})
RecvStopAudioProcessing ==
    /\ epoch < MaxStops
    /\ disconnect
    /\ epoch' = epoch + 1
    /\ UNCHANGED <<exceptOffscreen, starts, contexts, moduleLoaded, invocations, worklets, ports, delivered,
                   handled>>

\* a worklet whose context is rendering completes a chunk and posts it.  The
\* chunk's timestamp is the context's currentTime at that moment, counted in
\* chunk periods: worklets of one context count on the same clock, and the
\* model starts them in the same render quantum, so that the n-th chunk of
\* each carries the same timestamp.
WorkletPost(w, kind, rnd) ==
    /\ worklets[w].ctx = audioContext
    /\ PostsSoFar < MaxPosts
    /\ LET chunk == MakeChunk(<<ChannelData(kind, ChunkSize)>>, ChunkSize,
                              worklets[w].sequenceNumber,
                              worklets[w].sequenceNumber + 1, rnd)
       IN  ports' = [ports EXCEPT ![w] = Append(@,
                        [type |-> "audioChunk", chunk |-> Wire(chunk),
                         original |-> chunk, worklet |-> w, epoch |-> epoch])]
    /\ worklets' = [worklets EXCEPT ![w].sequenceNumber = @ + 1]
    /\ UNCHANGED <<exceptOffscreen, starts, audioContext, contexts, moduleLoaded, sourceNode, captureNode,
                   chunksReceived, startTime, invocations, delivered, handled,
                   epoch>>

\* mutant: the statistics step writes the rounded peak level back to the chunk
handleAudioChunk_RoundsLevel(sent, m, valid) ==
    IF valid
    THEN Append(sent, [chunk |-> [m.chunk EXCEPT !.peakLevel = Num(0)],
                       original |-> m.original, worklet |-> m.worklet,
                       postedIn |-> m.epoch, deliveredIn |-> epoch])
    ELSE sent

\* mutant: the chunk is forwarded whatever the validation said
handleAudioChunk_NoReturn(sent, m, valid) ==
    Append(sent, [chunk |-> m.chunk, original |-> m.original, worklet |-> m.worklet,
                  postedIn |-> m.epoch, deliveredIn |-> epoch])

\* handleAudioChunk(chunk): the chunks passed on to sendToPhase2 after it
handleAudioChunk(sent, m, valid) ==
    IF valid
    THEN Append(sent, [chunk |-> m.chunk, original |-> m.original,
                       worklet |-> m.worklet,
                       postedIn |-> m.epoch, deliveredIn |-> epoch])
    ELSE sent

\* captureNode.port.onmessage: handleWorkletMessage(event.data)
PortMessage(w) ==
    /\ ports[w] # <<>>
    /\ ports' = [ports EXCEPT ![w] = Tail(@)]
    /\ LET m == Head(ports[w])
       IN  IF m.type = "audioChunk"
           THEN LET valid == validateChunkContract(m.chunk)
                IN  /\ chunksReceived' = chunksReceived + 1
                    /\ handled' = Append(handled, [chunk |-> m.chunk, valid |-> valid])
                    /\ delivered' = handleAudioChunk(delivered, m, valid)
           ELSE UNCHANGED <<chunksReceived, handled, delivered>>
    /\ UNCHANGED <<exceptOffscreen, starts, audioContext, contexts, moduleLoaded, sourceNode,
                   captureNode, startTime, invocations, worklets, epoch>>

\* the offscreen document once its script has run and the auto-initialisation
\* (initializeAudio() at load) has completed
InitOffscreen ==
    /\ audioContext = 1
    /\ contexts = 1
    /\ moduleLoaded = {1}
    /\ sourceNode = 0
    /\ captureNode = 0
    /\ chunksReceived = 0
    /\ startTime = 0
    /\ starts = 0
    /\ invocations = <<>>
    /\ worklets = <<>>
    /\ ports = <<>>
    /\ delivered = <<>>
    /\ handled = <<>>
    /\ epoch = 0

-----------------------------------------------------------------------------
(* TabCaptureManager and the background chrome.runtime.onMessage listener. *)
(* A handler runs to its next await or callback without interruption; the  *)
(* continuation of a settled promise runs before the next message.         *)

\* what chrome.tabs.query hands to its callback: tabs[0]?.id, 0 when there is
\* no active tab
ActiveTabIds == {0, 1, 2}

\* chrome.runtime.lastError when the capture callback runs: not set, set
\* without a message, set with a message
NoLastError == "<unset>"
LastErrors == {NoLastError, "", "Extension has not been invoked for the current page"}

NoResponse == [sent |-> FALSE, success |-> FALSE, error |-> "", streamId |-> 0]

\* the listener's reply when there is no active tab
NoActiveTabResponse ==
    [sent |-> TRUE, success |-> FALSE, error |-> "No active tab found", streamId |-> 0]

\* mutant: the failure is answered as a success
StartCaptureFailed_AsSuccess(message) ==
    [sent |-> TRUE, success |-> TRUE, error |-> "", streamId |-> 0]

\* mutant: the catch block logs the error and answers nothing
StartCaptureFailed_Silent(message) == NoResponse

\* the listener's catch block: sendResponse({success: false, error: error.message})
StartCaptureFailed(message) ==
    [sent |-> TRUE, success |-> FALSE, error |-> message, streamId |-> 0]

\* the listener's reply once startCapture() has returned the stream
StartCaptureSucceeded(stream) ==
    [sent |-> TRUE, success |-> TRUE, error |-> "", streamId |-> stream]

\* the callback handed to chrome.tabCapture.capture: how the promise settles
captureCallback(stream, lastError) ==
    IF lastError # NoLastError
    THEN [resolved |-> FALSE,
          error |-> IF lastError = "" THEN "Unknown runtime error" ELSE lastError]
    ELSE IF stream = 0
    THEN [resolved |-> FALSE,
          error |-> "Failed to capture tab audio - tab may be closed, have no audio, or permissions denied"]
    ELSE [resolved |-> TRUE, error |-> ""]

\* sendStreamToOffscreen(), step 2: chrome.runtime.sendMessage
StartAudioProcessingMessage(stream, tabId, r) ==
    [type |-> "START_AUDIO_PROCESSING", streamId |-> stream, tabId |-> tabId,
     request |-> r]

StopAudioProcessingMessage ==
    [type |-> "STOP_AUDIO_PROCESSING", streamId |-> 0, tabId |-> 0, request |-> 0]

\* no message was answered at once in the last handler step
NoReply == [type |-> "none", answers |-> <<>>]

\* tab ids are interchangeable: the tabs that were active so far are numbered
\* in the order in which they were first seen
TabsSeen == {requests[q].tabId : q \in 1..Len(requests)} \ {0}

\* the listener receives START_CAPTURE: chrome.tabs.query is called
RecvStartCapture ==
    /\ Len(requests) < MaxStartCaptures
    /\ requests' = Append(requests,
           [pc |-> "tabsQuery", tabId |-> 0, captureCalls |-> 0, stream |-> 0,
            failure |-> "none", response |-> NoResponse, responses |-> 0,
            createDocumentCalls |-> 0, stopSince |-> FALSE])
    /\ afterStop' = FALSE
    /\ lastReply' = NoReply
    /\ UNCHANGED <<exceptBackground, currentStream, currentTabId,
                   offscreenDocumentExists, streams, offscreenDocuments,
                   sentMessages, stopCalls>>

\* the chrome.tabs.query callback: no active tab, or startCapture(activeTab.id)
\* up to the chrome.tabCapture.capture call
TabsQueryCallback(r, tab, apiAvailable) ==
    /\ requests[r].pc = "tabsQuery"
    /\ requests' = [requests EXCEPT ![r] =
          IF tab = 0
          THEN [@ EXCEPT !.pc = "done", !.failure = "noActiveTab",
                         !.response = NoActiveTabResponse, !.responses = @ + 1]
          ELSE IF ~apiAvailable
          THEN [@ EXCEPT !.pc = "done", !.tabId = tab, !.failure = "apiUnavailable",
                         !.response = StartCaptureFailed(
                             "tabCapture API not available - check manifest permissions"),
                         !.responses = @ + 1]
          ELSE [@ EXCEPT !.pc = "capture", !.tabId = tab, !.captureCalls = @ + 1]]
    /\ afterStop' = FALSE
    /\ lastReply' = NoReply
    /\ UNCHANGED <<exceptBackground, currentStream, currentTabId,
                   offscreenDocumentExists, streams, offscreenDocuments,
                   sentMessages, stopCalls>>

\* the browser refuses to capture a tab of which it holds a live stream
\* ("Cannot capture a tab with an active stream")
TabBeingCaptured(tab) ==
    \E q \in 1..Len(requests) :
        /\ requests[q].stream # 0
        /\ requests[q].tabId = tab
        /\ streams[requests[q].stream] = 0

\* the chrome.tabCapture.capture callback and what follows it in startCapture()
\* and sendStreamToOffscreen(), up to the createDocument() call or the return
CaptureCallback(r, granted, lastError) ==
    /\ requests[r].pc = "capture"
    /\ afterStop' = FALSE
    /\ lastReply' = NoReply
    /\ LET stream == IF granted THEN Len(streams) + 1 ELSE 0
           settled == captureCallback(stream, lastError)
       IN  IF ~settled.resolved
           THEN /\ requests' = [requests EXCEPT ![r] =
                      [@ EXCEPT !.pc = "done",
                                !.failure = IF lastError # NoLastError
                                            THEN "lastError" ELSE "nullStream",
                                !.response = StartCaptureFailed(settled.error),
                                !.responses = @ + 1]]
                /\ UNCHANGED <<currentStream, currentTabId, streams, sentMessages>>
           ELSE /\ streams' = Append(streams, 0)
                /\ currentStream' = stream
                /\ currentTabId' = requests[r].tabId
                /\ IF ~offscreenDocumentExists
                   THEN /\ requests' = [requests EXCEPT ![r] =
                              [@ EXCEPT !.pc = "createDocument", !.stream = stream,
                                        !.createDocumentCalls = @ + 1]]
                        /\ UNCHANGED sentMessages
                   ELSE /\ sentMessages' = Append(sentMessages,
                              StartAudioProcessingMessage(stream, requests[r].tabId, r))
                        /\ requests' = [requests EXCEPT ![r] =
                              [@ EXCEPT !.pc = "done", !.stream = stream,
                                        !.response = StartCaptureSucceeded(stream),
                                        !.responses = @ + 1]]
    /\ UNCHANGED <<exceptBackground, offscreenDocumentExists, offscreenDocuments,
                   stopCalls>>

\* chrome.offscreen.createDocument() resolves: the rest of
\* sendStreamToOffscreen(), then the listener answers
CreateDocumentResolved(r) ==
    /\ requests[r].pc = "createDocument"
    /\ offscreenDocuments = 0
    /\ offscreenDocuments' = 1
    /\ offscreenDocumentExists' = TRUE
    /\ sentMessages' = Append(sentMessages,
           StartAudioProcessingMessage(requests[r].stream, currentTabId, r))
    /\ requests' = [requests EXCEPT ![r] =
           [@ EXCEPT !.pc = "done",
                     !.response = StartCaptureSucceeded(requests[r].stream),
                     !.responses = @ + 1]]
    /\ afterStop' = FALSE
    /\ lastReply' = NoReply
    /\ UNCHANGED <<exceptBackground, currentStream, currentTabId, streams, stopCalls>>

\* chrome.offscreen.createDocument() rejects (a document exists already, or
\* the browser refuses): sendStreamToOffscreen() and startCapture() rethrow
CreateDocumentRejected(r) ==
    /\ requests[r].pc = "createDocument"
    /\ requests' = [requests EXCEPT ![r] =
           [@ EXCEPT !.pc = "done", !.failure = "createDocument",
                     !.response = StartCaptureFailed(
                         "Only a single offscreen document may be created."),
                     !.responses = @ + 1]]
    /\ afterStop' = FALSE
    /\ lastReply' = NoReply
    /\ UNCHANGED <<exceptBackground, currentStream, currentTabId,
                   offscreenDocumentExists, streams, offscreenDocuments,
                   sentMessages, stopCalls>>

\* the listener's replies to STOP_CAPTURE and to a message of unknown type
SuccessReply == [success |-> TRUE]
UnknownTypeReply == [success |-> FALSE, error |-> "Unknown message type"]

\* stopCapture()
stopCapture ==
    /\ IF currentStream # 0
       THEN /\ streams' = [streams EXCEPT ![currentStream] = @ + 1]
            /\ currentStream' = 0
       ELSE UNCHANGED <<streams, currentStream>>
    /\ currentTabId' = 0
    /\ IF offscreenDocumentExists
       THEN sentMessages' = Append(sentMessages, StopAudioProcessingMessage)
       ELSE UNCHANGED sentMessages

\* the listener receives STOP_CAPTURE: tabCapture.stopCapture() and
\* sendResponse({success: true})
RecvStopCapture ==
    /\ stopCalls < MaxStopCaptures
    /\ stopCapture
    /\ stopCalls' = stopCalls + 1
    /\ afterStop' = TRUE
    /\ requests' = [r \in 1..Len(requests) |-> [requests[r] EXCEPT !.stopSince = TRUE]]
    /\ lastReply' = [type |-> "STOP_CAPTURE", answers |-> <<SuccessReply>>]
    /\ UNCHANGED <<exceptBackground, offscreenDocumentExists, offscreenDocuments>>

\* getCaptureStatus(): a stream is active while none of its tracks is stopped
getCaptureStatus ==
    [isCapturing |-> currentStream # 0 /\ streams[currentStream] = 0,
     tabId       |-> currentTabId,
     streamId    |-> currentStream]

\* the listener receives GET_STATUS: sendResponse(getCaptureStatus())
RecvGetStatus ==
    /\ lastReply' = [type |-> "GET_STATUS", answers |-> <<getCaptureStatus>>]
    /\ afterStop' = FALSE
    /\ UNCHANGED <<exceptBackground, currentStream, currentTabId,
                   offscreenDocumentExists, streams, offscreenDocuments,
                   requests, sentMessages, stopCalls>>

\* the listener receives a message of another type
RecvUnknown ==
    /\ lastReply' = [type |-> "OTHER", answers |-> <<UnknownTypeReply>>]
    /\ afterStop' = FALSE
    /\ UNCHANGED <<exceptBackground, currentStream, currentTabId,
                   offscreenDocumentExists, streams, offscreenDocuments,
                   requests, sentMessages, stopCalls>>

\* the service worker once its script has run
InitBackground ==
    /\ currentStream = 0
    /\ currentTabId = 0
    /\ offscreenDocumentExists = FALSE
    /\ streams = <<>>
    /\ offscreenDocuments = 0
    /\ requests = <<>>
    /\ sentMessages = <<>>
    /\ stopCalls = 0
    /\ afterStop = FALSE
    /\ lastReply = NoReply

-----------------------------------------------------------------------------
(* OffscreenAudioProcessor.handleStreamError / restartCapture /            *)
(* notifyStreamFailure.  The source keeps failing: every stream error is    *)
(* handed to handleStreamError, and a RESTART_CAPTURE message restores      *)
(* nothing.                                                                *)

RECURSIVE Pow2(_)
Pow2(n) == IF n = 0 THEN 1 ELSE 2 * Pow2(n - 1)

\* "Math.pow(2, this.reconnectAttempts) * 1000"
backoffDelay(attempts) == Pow2(attempts) * 1000

\* this.reconnectAttempts after "await this.restartCapture()": reset to 0
\* unless restartCapture() threw
attemptsAfterRestart(attempts, thrown) == IF thrown THEN attempts ELSE 0

\* handleStreamError(error) up to the backoff timer, or notifyStreamFailure()
StreamError ==
    /\ streamErrors < MaxStreamErrors
    /\ streamErrors' = streamErrors + 1
    /\ IF reconnectAttempts < maxReconnectAttempts
       THEN /\ reconnectAttempts' = reconnectAttempts + 1
            /\ waits' = Append(waits, backoffDelay(reconnectAttempts + 1))
            /\ recovering' = Append(recovering, backoffDelay(reconnectAttempts + 1))
            /\ UNCHANGED failuresNotified
       ELSE /\ failuresNotified' = failuresNotified + 1
            /\ UNCHANGED <<reconnectAttempts, waits, recovering>>
    /\ UNCHANGED <<exceptReconnect, restartsSent>>

\* the backoff timer of call i fires: restartCapture(), which disconnects the
\* nodes and sends RESTART_CAPTURE, or throws before it has sent
BackoffElapsed(i, thrown) ==
    /\ i \in 1..Len(recovering)
    /\ recovering' = [j \in 1..(Len(recovering) - 1) |->
                         IF j < i THEN recovering[j] ELSE recovering[j + 1]]
    /\ restartsSent' = IF thrown THEN restartsSent ELSE restartsSent + 1
    /\ reconnectAttempts' = attemptsAfterRestart(reconnectAttempts, thrown)
    /\ UNCHANGED <<exceptReconnect, waits, failuresNotified, streamErrors>>

InitReconnect ==
    /\ reconnectAttempts = 0
    /\ recovering = <<>>
    /\ waits = <<>>
    /\ restartsSent = 0
    /\ failuresNotified = 0
    /\ streamErrors = 0

-----------------------------------------------------------------------------
(* Phase2Bridge: the delivery path from the validator to the processing     *)
(* engine.  The consumer is the receiving end of chrome.runtime messaging. *)

HandlerTypes == {"audioChunk", "processingFeedback"}

\* the chunk handed to the n-th sendAudioChunk() call
BridgeChunk(kind, n) ==
    Wire(MakeChunk(<<ChannelData(kind, ChunkSize)>>, ChunkSize, n, n + 1, 1))

\* sendAudioChunk(chunk): the message built from the chunk
BridgeMessage(chunk, now) ==
    [type |-> "audioChunk", data |-> chunk, timestamp |-> now]

\* sendAudioChunk(chunk): chrome.runtime.sendMessage(message), then
\* broadcastMessage(message)
SendAudioChunk(kind) ==
    /\ bridgeSends < MaxSends
    /\ bridgeSends' = bridgeSends + 1
    /\ LET message == BridgeMessage(BridgeChunk(kind, bridgeSends), bridgeSends + 1)
       IN  /\ runtimeQueue' = Append(runtimeQueue, message)
           /\ handlerCalls' = IF message.type \in messageHandlers
                              THEN Append(handlerCalls, message.data)
                              ELSE handlerCalls
    /\ UNCHANGED <<exceptBridge, messageHandlers>>

\* onMessage(type, handler)
OnMessage(type) ==
    /\ type \notin messageHandlers
    /\ messageHandlers' = messageHandlers \cup {type}
    /\ UNCHANGED <<exceptBridge, runtimeQueue, handlerCalls, bridgeSends>>

\* the consumer (the Phase 2 side's onMessage listener) receives the oldest
\* message; a blocked consumer does not take this step
ConsumerReceives ==
    /\ runtimeQueue # <<>>
    /\ runtimeQueue' = Tail(runtimeQueue)
    /\ UNCHANGED <<exceptBridge, messageHandlers, handlerCalls, bridgeSends>>

InitBridge ==
    /\ messageHandlers = {}
    /\ runtimeQueue = <<>>
    /\ handlerCalls = <<>>
    /\ bridgeSends = 0

-----------------------------------------------------------------------------
(* PerformanceMonitor (src/README.md) *)

\* Numbers are binary floating-point numbers of Precision significant bits,
\* written as integers; an operation returns the exact result rounded to the
\* nearest such number, a tie going to the one with an even last bit.

\* the spacing of the numbers around n
RECURSIVE UlpFrom(_, _)
UlpFrom(n, u) == IF n < u * Pow2(Precision) THEN u ELSE UlpFrom(n, 2 * u)
Ulp(n) == UlpFrom(n, 1)

\* num / den rounded to a multiple of u
RoundTo(num, den, u) ==
    LET k == num \div (den * u)
        r == num - k * den * u
    IN  IF 2 * r < den * u THEN k * u
        ELSE IF 2 * r > den * u THEN (k + 1) * u
        ELSE IF k % 2 = 0 THEN k * u ELSE (k + 1) * u

\* a + b and a / b as the machine computes them (a / b for quotients of at
\* least Pow2(Precision - 1), where the spacing is a whole number)
FlAdd(a, b) == RoundTo(a + b, 1, Ulp(a + b))
FlDiv(a, b) == RoundTo(a, b, Ulp(a \div b))

\* values.reduce((a, b) => a + b, 0)
RECURSIVE ReduceSum(_, _)
ReduceSum(values, acc) ==
    IF values = <<>> THEN acc ELSE ReduceSum(Tail(values), FlAdd(acc, Head(values)))

\* the metric names and the values the callers record: two numbers of
\* Precision bits
Metrics == {"chunkInterval", "processingTime"}
MeasuredValues == {3 * Pow2(Precision - 2), Pow2(Precision) - 1}

\* record() that drops the oldest value one call too early
record_ShiftAtLimit(map, metric, value) ==
    LET created == IF metric \in DOMAIN map THEN map ELSE map @@ (metric :> <<>>)
        pushed  == Append(created[metric], value)
    IN  [created EXCEPT ![metric] =
            IF Len(pushed) >= historySize THEN Tail(pushed) ELSE pushed]

\* record(metric, value): the Map after the call. The list is created when
\* the metric has none, the value is pushed, and the oldest value is shifted
\* out when the list has grown past the limit.
record(map, metric, value) ==
    LET created == IF metric \in DOMAIN map THEN map ELSE map @@ (metric :> <<>>)
        pushed  == Append(created[metric], value)
    IN  [created EXCEPT ![metric] =
            IF Len(pushed) > historySize THEN Tail(pushed) ELSE pushed]

\* no getStats() call was made in the last step
NoStatsCall == [metric |-> "none", stats |-> [t |-> "none"]]

\* a caller records one value
Record(metric, value) ==
    /\ Len(recorded["chunkInterval"]) + Len(recorded["processingTime"]) < MaxRecords
    /\ measurements' = record(measurements, metric, value)
    /\ recorded' = [recorded EXCEPT ![metric] = Append(@, value)]
    /\ lastStats' = NoStatsCall
    /\ UNCHANGED <<clears, exceptMonitor>>

\* Math.min(...values) and Math.max(...values) of a list that is not empty
MathMin(values) ==
    CHOOSE x \in {values[i] : i \in 1..Len(values)} :
        \A i \in 1..Len(values) : x <= values[i]
MathMax(values) ==
    CHOOSE x \in {values[i] : i \in 1..Len(values)} :
        \A i \in 1..Len(values) : x >= values[i]

\* getStats(metric): null when the Map has no list for the metric or an
\* empty one, else the statistics of the list.
getStats(map, metric) ==
    IF metric \notin DOMAIN map \/ Len(map[metric]) = 0
    THEN [t |-> "null"]
    ELSE LET values == map[metric]
         IN  [t       |-> "object",
              count   |-> Len(values),
              average |-> FlDiv(ReduceSum(values, 0), Len(values)),
              min     |-> MathMin(values),
              max     |-> MathMax(values),
              latest  |-> values[Len(values)]]

\* a caller asks for the statistics of one metric
GetStats(metric) ==
    /\ lastStats' = [metric |-> metric, stats |-> getStats(measurements, metric)]
    /\ UNCHANGED <<measurements, recorded, clears, exceptMonitor>>

\* clear(): this.measurements.clear()
Clear ==
    /\ clears < MaxClears
    /\ clears' = clears + 1
    /\ measurements' = <<>>
    /\ recorded' = [m \in Metrics |-> <<>>]
    /\ lastStats' = NoStatsCall
    /\ UNCHANGED exceptMonitor

\* new PerformanceMonitor(): the Map is empty
InitMonitor ==
    /\ measurements = <<>>
    /\ recorded = [m \in Metrics |-> <<>>]
    /\ clears = 0
    /\ lastStats = NoStatsCall

-----------------------------------------------------------------------------
(* AudioCapturePopup.startMonitoring (src/src/popup/index.tsx) *)

\* captureState.error: undefined
NoPopupError == "<undefined>"

\* Numbers that are not integers are fractions <<numerator, denominator>>;
\* the arithmetic is exact (the rounding of IEEE doubles is left out).
GCD(a, b) == LET RECURSIVE Euclid(_, _)
                 Euclid(x, y) == IF y = 0 THEN x ELSE Euclid(y, x % y)
             IN  Euclid(a, b)
Reduce(f) == LET g == GCD(f[1], f[2]) IN <<f[1] \div g, f[2] \div g>>
FracEq(f, g) == f[1] * g[2] = g[1] * f[2]

\* Date.now() differences between two runs of the callback: the 100 ms of the
\* interval, and shorter ones when the wall clock is set back in between
TickGaps == {0, 28, 100}
\* Math.random() * 0.5 + 0.1, in hundredths
SimulatedLevels == {10, 35}

\* the literal 42.67 the callback compares the average interval with
targetChunkInterval == <<4267, 100>>
\* frameLength / sampleRate * 1000 ms
targetInterval == Reduce(<<FRAME_LENGTH * 1000, SAMPLE_RATE>>)

\* Math.max(0, 100 - Math.abs(avgInterval - target) * 2)
consistencyAgainst(avgInterval, target) ==
    LET den  == avgInterval[2] * target[2]
        diff == Abs(avgInterval[1] * target[2] - target[1] * avgInterval[2])
        num  == 100 * den - 2 * diff
    IN  <<IF num < 0 THEN 0 ELSE num, den>>

\* the consistency the callback computes
timingConsistency(avgInterval) == consistencyAgainst(avgInterval, targetChunkInterval)

\* one run of the interval callback, gap ms after the one before
MonitoringTick(gap, simulatedLevel) ==
    /\ monitoringInterval
    /\ ticks < MaxTicks
    /\ ticks' = ticks + 1
    /\ IF ~seenIsCapturing
       THEN /\ monitoringInterval' = FALSE
            /\ UNCHANGED <<chunkCount, elapsedMs, captureState, performanceMetrics>>
       ELSE LET count       == chunkCount + 1
                ms          == elapsedMs + gap
                avgInterval == <<ms, count>>
            IN  /\ chunkCount' = count
                /\ elapsedMs' = ms
                /\ captureState' = [chunksProcessed |-> count,
                                    audioLevel |-> simulatedLevel,
                                    chunkRate |-> <<1000 * count, ms>>]
                /\ performanceMetrics' =
                       [totalChunks |-> count,
                        avgChunkInterval |-> avgInterval,
                        timingConsistency |-> timingConsistency(avgInterval)]
                /\ UNCHANGED monitoringInterval
    /\ UNCHANGED <<seenIsCapturing, isCapturing, popupError, popupStarts, exceptPopup>>

\* startMonitoring() has just been called. useCallback keeps one
\* startMonitoring per value of captureState.isCapturing, and the callback
\* reads the value of the render its startMonitoring comes from.
InitPopup ==
    /\ seenIsCapturing \in BOOLEAN
    /\ monitoringInterval = TRUE
    /\ chunkCount = 0
    /\ elapsedMs = 0
    /\ ticks = 0
    /\ captureState = [chunksProcessed |-> 0, audioLevel |-> 0, chunkRate |-> <<0, 1>>]
    /\ performanceMetrics = [totalChunks |-> 0, avgChunkInterval |-> <<0, 1>>,
                             timingConsistency |-> <<100, 1>>]
    /\ isCapturing = TRUE
    /\ popupError = NoPopupError
    /\ popupStarts = 1

\* useState's initial captureState.isCapturing: the value the first render
\* holds. startCapture is memoised with no dependencies, so the popup always
\* runs the startCapture of the first render, and that one calls the
\* startMonitoring of the first render, whose interval callback reads this
\* value.
FirstRenderIsCapturing == FALSE

\* what chrome.runtime.sendMessage({type: "START_CAPTURE"}) gives the popup:
\* a response, or an exception with a message
StartCaptureOutcomes ==
    {[thrown |-> FALSE, success |-> TRUE, error |-> ""],
     [thrown |-> FALSE, success |-> FALSE, error |-> "No active tab found"],
     [thrown |-> FALSE, success |-> FALSE, error |-> ""],
     [thrown |-> TRUE, success |-> FALSE, error |-> "Could not establish connection"],
     [thrown |-> TRUE, success |-> FALSE, error |-> ""]}

\* response.error || "Unknown error occurred", and the same for an exception
OrDefault(message, default) == IF message = "" THEN default ELSE message

\* the popup is mounted: nothing is captured, no interval is set
InitPopupMounted ==
    /\ seenIsCapturing = FirstRenderIsCapturing
    /\ monitoringInterval = FALSE
    /\ chunkCount = 0
    /\ elapsedMs = 0
    /\ ticks = 0
    /\ captureState = [chunksProcessed |-> 0, audioLevel |-> 0, chunkRate |-> <<0, 1>>]
    /\ performanceMetrics = [totalChunks |-> 0, avgChunkInterval |-> <<0, 1>>,
                             timingConsistency |-> <<100, 1>>]
    /\ isCapturing = FALSE
    /\ popupError = NoPopupError
    /\ popupStarts = 0

\* startCapture(), from the click on "Start Capture" (shown while
\* isCapturing is false) to the handling of the answer. A capture is started
\* when the interval of the one before is cleared.
PopupStartCapture(outcome) ==
    /\ ~isCapturing
    /\ ~monitoringInterval
    /\ popupStarts < MaxPopupStarts
    /\ popupStarts' = popupStarts + 1
    /\ IF outcome.thrown
       THEN /\ isCapturing' = FALSE
            /\ popupError' = OrDefault(outcome.error, "Failed to communicate with extension")
            /\ UNCHANGED <<seenIsCapturing, monitoringInterval, chunkCount, elapsedMs>>
       ELSE IF outcome.success
       THEN /\ isCapturing' = TRUE
            /\ popupError' = NoPopupError
            \* startMonitoring()
            /\ seenIsCapturing' = FirstRenderIsCapturing
            /\ monitoringInterval' = TRUE
            /\ chunkCount' = 0
            /\ elapsedMs' = 0
       ELSE /\ isCapturing' = FALSE
            /\ popupError' = OrDefault(outcome.error, "Unknown error occurred")
            /\ UNCHANGED <<seenIsCapturing, monitoringInterval, chunkCount, elapsedMs>>
    /\ UNCHANGED <<ticks, captureState, performanceMetrics, exceptPopup>>

\* stopCapture(), from the click on "Stop Capture" (shown while isCapturing
\* is true) to the handling of the answer; thrown: sendMessage raised
PopupStopCapture(thrown) ==
    /\ isCapturing
    /\ IF thrown
       THEN /\ popupError' = "Failed to stop capture"
            /\ UNCHANGED <<isCapturing, captureState, performanceMetrics>>
       ELSE /\ isCapturing' = FALSE
            /\ popupError' = NoPopupError
            /\ captureState' = [chunksProcessed |-> 0, audioLevel |-> 0, chunkRate |-> <<0, 1>>]
            /\ performanceMetrics' = [totalChunks |-> 0, avgChunkInterval |-> <<0, 1>>,
                                      timingConsistency |-> <<100, 1>>]
    /\ UNCHANGED <<seenIsCapturing, monitoringInterval, chunkCount, elapsedMs, ticks,
                   popupStarts, exceptPopup>>


-----------------------------------------------------------------------------
(* Specifications.  Each one runs one component; the variables of the      *)
(* other components keep their initial values.                             *)

ParkedWorklet ==
    /\ chunkSize = ChunkSize
    /\ chunkBuffer = <<>>
    /\ sequenceNumber = 0
    /\ totalSamplesProcessed = 0
    /\ lastChunkTime = 0
    /\ currentTime = 0
    /\ posted = <<StatsMessage>>
    /\ fed = <<<<>>, <<>>>>
    /\ threw = FALSE
    /\ calls = 0
    /\ idleCalls = 0
    /\ inputChannels = 0

-----------------------------------------------------------------------------
(* The popup's requests on chrome.runtime.  sendMessage hands the message   *)
(* to the onMessage listeners of every other context of the extension: the *)
(* background service worker and, once it is loaded, the offscreen         *)
(* document.  The contexts run their listeners in no fixed order, and the  *)
(* first sendResponse settles the popup's promise; later ones are dropped. *)
(* The background manager is kept in its initial state here: a            *)
(* startCapture() is seen by how it settles.                                *)

PopupMessageTypes == {"START_CAPTURE", "STOP_CAPTURE", "GET_STATUS"}

NoPopupMessage ==
    [type |-> "none", bothListening |-> FALSE, toBackground |-> FALSE,
     toOffscreen |-> FALSE, starting |-> FALSE, answered |-> FALSE]

InitRouting ==
    /\ offscreenListening = FALSE
    /\ popupMessage = NoPopupMessage
    /\ popupResponses = <<>>

\* every listener has run for the popup's message, and the listener that
\* returned true has called sendResponse
PopupMessageSettled ==
    /\ ~popupMessage.toBackground
    /\ ~popupMessage.toOffscreen
    /\ ~popupMessage.starting

\* const response = await chrome.runtime.sendMessage({type}), up to the await
PopupSendMessage(type) ==
    /\ PopupMessageSettled
    /\ Len(popupResponses) < MaxPopupMessages
    /\ popupMessage' = [type |-> type, bothListening |-> offscreenListening,
                        toBackground |-> TRUE, toOffscreen |-> offscreenListening,
                        starting |-> FALSE, answered |-> FALSE]
    /\ UNCHANGED <<offscreenListening, popupResponses, exceptRouting>>

\* sendResponse(response) called by a listener of component "by": it
\* settles the popup's promise unless a response was sent before
SendResponse(by, response) ==
    popupResponses' =
        IF popupMessage.answered THEN popupResponses
        ELSE Append(popupResponses,
                    [type |-> popupMessage.type, by |-> by, response |-> response,
                     bothListening |-> popupMessage.bothListening])

\* the background listener runs for the popup's message: START_CAPTURE
\* starts startCapture() and returns true; STOP_CAPTURE and GET_STATUS are
\* answered before the listener returns
BackgroundListener ==
    /\ popupMessage.toBackground
    /\ IF popupMessage.type = "START_CAPTURE"
       THEN /\ popupMessage' = [popupMessage EXCEPT !.toBackground = FALSE,
                                                     !.starting = TRUE]
            /\ UNCHANGED popupResponses
       ELSE /\ popupMessage' = [popupMessage EXCEPT !.toBackground = FALSE,
                                                     !.answered = TRUE]
            /\ IF popupMessage.type = "STOP_CAPTURE"
               THEN SendResponse("background", SuccessReply)
               ELSE SendResponse("background", getCaptureStatus)
    /\ UNCHANGED <<offscreenListening, exceptRouting>>

\* startCapture() settles and the background listener answers; a capture
\* that succeeded has created the offscreen document
BackgroundStartSettles(response) ==
    /\ popupMessage.starting
    /\ popupMessage' = [popupMessage EXCEPT !.starting = FALSE, !.answered = TRUE]
    /\ SendResponse("background", response)
    /\ offscreenListening' = (offscreenListening \/ response.success)
    /\ UNCHANGED exceptRouting

\* the offscreen listener runs for the popup's message: the type is none of
\* its own, so the else branch answers
OffscreenListener ==
    /\ popupMessage.toOffscreen
    /\ popupMessage' = [popupMessage EXCEPT !.toOffscreen = FALSE, !.answered = TRUE]
    /\ SendResponse("offscreen", UnknownTypeReply)
    /\ UNCHANGED <<offscreenListening, exceptRouting>>

\* the popup while another component is run: no monitor has computed a value
ParkedPopup == InitPopup /\ ~seenIsCapturing

ParkedValidate ==
    /\ vchunk = WellFormedChunk
    /\ vroot = "object"
    /\ vquick = Bool(FALSE)
    /\ vdone = TRUE
    /\ vcontract = FALSE
    /\ vvalidate = FALSE

\* the frame accumulator, driven by any sequence of process() calls
NextWorklet ==
    \E input \in InputFrames : Process(input)

InitW == InitWorklet /\ ParkedValidate /\ InitOffscreen /\ InitBackground /\ InitReconnect /\ InitBridge /\ InitMonitor /\ ParkedPopup /\ InitRouting

SpecWorklet == InitW /\ [][NextWorklet]_vars

\* the frame accumulator, constructed with any chunk size
InitA == InitWorkletSized /\ ParkedValidate /\ InitOffscreen /\ InitBackground /\ InitReconnect /\ InitBridge /\ InitMonitor /\ ParkedPopup /\ InitRouting

SpecAccumulator == InitA /\ [][NextWorklet]_vars

\* the validators, applied to one object
NextValidate == RunValidators

InitV == InitValidate /\ ParkedWorklet /\ InitOffscreen /\ InitBackground /\ InitReconnect /\ InitBridge /\ InitMonitor /\ ParkedPopup /\ InitRouting

SpecValidate == InitV /\ [][NextValidate]_vars

\* the offscreen document: its listener, the startProcessing() calls in
\* progress, the worklets and their ports
NextOffscreen ==
    \/ RecvStartAudioProcessing
    \/ RecvStopAudioProcessing
    \/ \E i \in 1..Len(invocations) : AddModuleResolved(i)
    \/ \E i \in 1..Len(invocations) : GetUserMediaResolved(i)
    \/ \E i \in 1..Len(invocations) : GetUserMediaRejected(i)
    \/ \E w \in 1..Len(worklets), kind \in CapturedKinds, rnd \in RandomSuffixes :
           WorkletPost(w, kind, rnd)
    \/ \E w \in 1..Len(worklets) : PortMessage(w)

InitO == InitOffscreen /\ ParkedWorklet /\ ParkedValidate /\ InitBackground /\ InitReconnect /\ InitBridge /\ InitMonitor /\ ParkedPopup /\ InitRouting

SpecOffscreen == InitO /\ [][NextOffscreen]_vars

\* the background service worker: its listener and the START_CAPTURE requests
\* in progress
NextBackground ==
    \/ RecvStartCapture
    \/ RecvStopCapture
    \/ \E r \in 1..Len(requests), tab \in ActiveTabIds, apiAvailable \in BOOLEAN :
           /\ tab <= Cardinality(TabsSeen) + 1
           /\ TabsQueryCallback(r, tab, apiAvailable)
    \/ \E r \in 1..Len(requests), granted \in BOOLEAN, lastError \in LastErrors :
           /\ (granted => lastError = NoLastError)
           /\ (granted => ~TabBeingCaptured(requests[r].tabId))
           /\ CaptureCallback(r, granted, lastError)
    \/ \E r \in 1..Len(requests) : CreateDocumentResolved(r)
    \/ \E r \in 1..Len(requests) : CreateDocumentRejected(r)

\* what the browser hands the listener where only the replies are looked at:
\* no active tab or one, no lastError or one
ListenerTabIds == {0, 1}
ListenerLastErrors == {NoLastError, "Extension has not been invoked for the current page"}

\* the listener with every message type it can receive
NextListener ==
    \/ RecvStartCapture
    \/ RecvStopCapture
    \/ \E r \in 1..Len(requests), tab \in ListenerTabIds, apiAvailable \in BOOLEAN :
           TabsQueryCallback(r, tab, apiAvailable)
    \/ \E r \in 1..Len(requests), granted \in BOOLEAN, lastError \in ListenerLastErrors :
           /\ (granted => lastError = NoLastError)
           /\ (granted => ~TabBeingCaptured(requests[r].tabId))
           /\ CaptureCallback(r, granted, lastError)
    \/ \E r \in 1..Len(requests) : CreateDocumentResolved(r)
    \/ \E r \in 1..Len(requests) : CreateDocumentRejected(r)
    \/ RecvGetStatus
    \/ RecvUnknown

\* a pending chrome.offscreen.createDocument() promise settles
CreateDocumentSettles ==
    \E r \in 1..Len(requests) : CreateDocumentResolved(r) \/ CreateDocumentRejected(r)

InitB == InitBackground /\ ParkedWorklet /\ ParkedValidate /\ InitOffscreen /\ InitReconnect /\ InitBridge /\ InitMonitor /\ ParkedPopup /\ InitRouting

SpecBackground == InitB /\ [][NextBackground]_vars

\* the listener, with every createDocument() promise settling in the end
SpecBackgroundFair == InitB /\ [][NextListener]_vars /\ WF_vars(CreateDocumentSettles)

\* the stream error handler of the offscreen document
NextReconnect ==
    \/ StreamError
    \/ \E i \in 1..Len(recovering), thrown \in BOOLEAN : BackoffElapsed(i, thrown)

InitR == InitReconnect /\ ParkedWorklet /\ ParkedValidate /\ InitOffscreen /\ InitBackground /\ InitBridge /\ InitMonitor /\ ParkedPopup /\ InitRouting

SpecReconnect == InitR /\ [][NextReconnect]_vars

\* the bridge to the processing engine and its consumer
NextBridge ==
    \/ \E kind \in CapturedKinds : SendAudioChunk(kind)
    \/ \E type \in HandlerTypes : OnMessage(type)
    \/ ConsumerReceives

InitP == InitBridge /\ ParkedWorklet /\ ParkedValidate /\ InitOffscreen /\ InitBackground /\ InitReconnect /\ InitMonitor /\ ParkedPopup /\ InitRouting

SpecBridge == InitP /\ [][NextBridge]_vars

\* the performance monitor
NextMonitor ==
    \/ \E metric \in Metrics, value \in MeasuredValues : Record(metric, value)
    \/ \E metric \in Metrics : GetStats(metric)
    \/ Clear

InitM == InitMonitor /\ ParkedWorklet /\ ParkedValidate /\ InitOffscreen /\ InitBackground /\ InitReconnect /\ InitBridge /\ ParkedPopup /\ InitRouting

SpecMonitor == InitM /\ [][NextMonitor]_vars

\* the popup's monitor
NextPopup ==
    \/ \E gap \in TickGaps, level \in SimulatedLevels : MonitoringTick(gap, level)

InitU == InitPopup /\ ParkedWorklet /\ ParkedValidate /\ InitOffscreen /\ InitBackground /\ InitReconnect /\ InitBridge /\ InitMonitor /\ InitRouting

SpecPopup == InitU /\ [][NextPopup]_vars

\* the popup from its mounting on: captures started and stopped, and the
\* interval callback
NextPopupCapture ==
    \/ \E outcome \in StartCaptureOutcomes : PopupStartCapture(outcome)
    \/ \E thrown \in BOOLEAN : PopupStopCapture(thrown)
    \/ \E gap \in TickGaps, level \in SimulatedLevels : MonitoringTick(gap, level)

InitC == InitPopupMounted /\ ParkedWorklet /\ ParkedValidate /\ InitOffscreen /\ InitBackground /\ InitReconnect /\ InitBridge /\ InitMonitor /\ InitRouting

SpecPopupCapture == InitC /\ [][NextPopupCapture]_vars

\* the popup's messages and the two listeners
NextRouting ==
    \/ \E type \in PopupMessageTypes : PopupSendMessage(type)
    \/ BackgroundListener
    \/ \E response \in {NoActiveTabResponse, StartCaptureSucceeded(1),
                        StartCaptureFailed("Failed to capture tab audio")} :
           BackgroundStartSettles(response)
    \/ OffscreenListener

InitX == InitRouting /\ ParkedWorklet /\ ParkedValidate /\ InitOffscreen /\ InitBackground /\ InitReconnect /\ InitBridge /\ InitMonitor /\ ParkedPopup

SpecRouting == InitX /\ [][NextRouting]_vars

-----------------------------------------------------------------------------
(* Claims about the validators, checked under SpecValidate *)

\* the defects full validation is said to reject
C4_FieldAbsent(chunk) ==
    \E i \in 1..Len(RequiredFields) : RequiredFields[i] \notin chunk.present

C4_PayloadMalformed(chunk) ==
    \/ Get(chunk, "samples").t # "array"
    \/ \E i \in 1..Len(Get(chunk, "samples").v) :
          LET channelData == Get(chunk, "samples").v[i]
          IN  \/ ~channelData.f32
              \/ Num(Len(channelData.data)) # Get(chunk, "frameLength")
              \/ \E j \in 1..Len(channelData.data) :
                    \/ IsNaN(channelData.data[j])
                    \/ channelData.data[j] < -SCALE
                    \/ channelData.data[j] > SCALE

C4_LevelOutOfRange(chunk) ==
    \/ /\ "rmsLevel" \in chunk.present
       /\ chunk.rmsLevel.t = "number"
       /\ (RootLtZero(chunk.rmsLevel.v) \/ RootGtOne(chunk.rmsLevel.v))
    \/ /\ "peakLevel" \in chunk.present
       /\ chunk.peakLevel.t = "number"
       /\ (chunk.peakLevel.v < 0 \/ chunk.peakLevel.v > SCALE)

C4_Defective(chunk) ==
    \/ C4_FieldAbsent(chunk)
    \/ Get(chunk, "sampleRate") # Num(SAMPLE_RATE)
    \/ Get(chunk, "frameLength") # Num(ChunkSize)
    \/ C4_PayloadMalformed(chunk)
    \/ Get(chunk, "channels") # SamplesLength(chunk)
    \/ Get(chunk, "timestamp").t = "number" /\ Get(chunk, "timestamp").v <= 0
    \/ Get(chunk, "chunkId").t = "string" /\ Get(chunk, "chunkId").v = <<>>
    \/ /\ Get(chunk, "sequenceNumber").t = "number"
       /\ \/ Get(chunk, "sequenceNumber").v < 0
          \/ ~IsIntegerHalves(Get(chunk, "sequenceNumber").v)
    \/ C4_LevelOutOfRange(chunk)

\* C4: both full validators reject an object that has any of the listed
\* defects (absent required field, wrong sampleRate or frameLength, malformed
\* sample payload, channel count mismatch, NaN or out-of-range sample,
\* timestamp <= 0, empty chunkId, negative or non-integer sequenceNumber,
\* rmsLevel or peakLevel present and outside [0,1]).
C4_FullValidationRejects ==
    (vdone /\ C4_Defective(vchunk)) => (~vcontract /\ ~vvalidate)

\* the same, for each validator alone
C4_ContractRejects == (vdone /\ C4_Defective(vchunk)) => ~vcontract
C4_ValidateRejects == (vdone /\ C4_Defective(vchunk)) => ~vvalidate

\* the objects that differ from chunk in the value of one sample
C13_OneSampleChanged(chunk) ==
    IF Get(chunk, "samples").t # "array" THEN {}
    ELSE LET chans == chunk.samples.v
         IN  UNION {{[chunk EXCEPT !.samples.v[i].data[j] = x] :
                        j \in 1..Len(chans[i].data), x \in {0, NaN, SCALE + 1}} :
                    i \in 1..Len(chans)}

\* C13: quickValidate answers true or false for every value, null and
\* undefined included; it answers true only when every required field is
\* present and sampleRate and frameLength have the configured values; and
\* changing one sample never changes its answer.
C13_QuickValidate ==
    vdone =>
        /\ vquick.t = "boolean"
        /\ vquick = Bool(TRUE) =>
               /\ \A i \in 1..Len(RequiredFields) : RequiredFields[i] \in vchunk.present
               /\ Get(vchunk, "sampleRate") = Num(SAMPLE_RATE)
               /\ Get(vchunk, "frameLength") = Num(ChunkSize)
        /\ vroot = "object" =>
               \A c \in C13_OneSampleChanged(vchunk) : quickValidate(vroot, c) = vquick

\* the parts of C13 taken one at a time
C13_ReturnsBoolean == vdone => vquick.t = "boolean"
C13_TrueOnlyIfComplete ==
    (vdone /\ vquick = Bool(TRUE)) =>
        \A i \in 1..Len(RequiredFields) : RequiredFields[i] \in vchunk.present

-----------------------------------------------------------------------------
(* Claims about the offscreen document, checked under SpecOffscreen *)

ValidHandled == SelectSeq(handled, LAMBDA h : h.valid)

\* C5: sendToPhase2 receives exactly the chunks for which
\* validateChunkContract returned true, in the order they were handled: an
\* invalid chunk is dropped and does not stop the chunks after it.
C5_OnlyValidForwarded ==
    /\ Len(delivered) = Len(ValidHandled)
    /\ \A i \in 1..Len(delivered) : delivered[i].chunk = ValidHandled[i].chunk

\* C5 witness: a chunk that failed validation was handled, and after it a
\* valid chunk was handled and forwarded.
C5_Witness ==
    /\ \E i, j \in 1..Len(handled) : i < j /\ ~handled[i].valid /\ handled[j].valid
    /\ delivered # <<>>
    /\ handled[Len(handled)].valid

\* C6: within one session (between two STOP_AUDIO_PROCESSING) the chunks
\* passed to sendToPhase2 carry strictly increasing sequence numbers: never
\* out of order, never the same number twice.
C6_OrderedDelivery ==
    \A i, j \in 1..Len(delivered) :
        (i < j /\ delivered[i].deliveredIn = delivered[j].deliveredIn)
            => delivered[i].chunk.sequenceNumber.v < delivered[j].chunk.sequenceNumber.v

\* C7: no chunk posted before a disconnect() is passed to sendToPhase2 after
\* it.
C7_NoLateDelivery ==
    \A i \in 1..Len(delivered) : delivered[i].postedIn = delivered[i].deliveredIn

-----------------------------------------------------------------------------
(* Claims about the background service worker, checked under SpecBackground *)

StartAudioProcessingSent(r) ==
    \E i \in 1..Len(sentMessages) :
        sentMessages[i].type = "START_AUDIO_PROCESSING" /\ sentMessages[i].request = r

AcquisitionFailures == {"noActiveTab", "apiUnavailable", "lastError", "nullStream"}

\* C8: one START_CAPTURE, and one STOP_CAPTURE received after it, before or
\* after the start has finished; once both handlers have finished the manager
\* is idle and every stream that was acquired has had its tracks stopped.
C8_StopFromAnyState ==
    (/\ Len(requests) = 1
     /\ requests[1].pc = "done"
     /\ stopCalls = 1
     /\ requests[1].stopSince)
        => /\ currentStream = 0
           /\ currentTabId = 0
           /\ \A i \in 1..Len(streams) : streams[i] >= 1

\* C9: a stopCapture() call that directly follows a stopCapture() call leaves
\* the manager's state as it was, stops no track and sends no message.
C9_StopIdempotent ==
    [][(afterStop /\ stopCalls' = stopCalls + 1)
          => /\ UNCHANGED <<currentStream, currentTabId, offscreenDocumentExists>>
             /\ UNCHANGED streams
             /\ UNCHANGED sentMessages]_vars

\* the part of C9 the code keeps: the manager's own state and the tracks are
\* the same after the second call
C9_StopStateIdempotent ==
    [][(afterStop /\ stopCalls' = stopCalls + 1)
          => UNCHANGED <<currentStream, currentTabId, offscreenDocumentExists, streams>>]_vars

C20_UniqueChunkIds ==
    \A i, j \in 1..Len(delivered) :
        (i < j /\ delivered[i].deliveredIn = delivered[j].deliveredIn)
            => delivered[i].chunk.chunkId # delivered[j].chunk.chunkId

\* the chunks one CaptureProcessor posts carry pairwise different chunkIds
C20_UniquePerWorklet ==
    \A i, j \in 1..Len(delivered) :
        (i < j /\ delivered[i].worklet = delivered[j].worklet)
            => delivered[i].chunk.chunkId # delivered[j].chunk.chunkId

\* the offscreen half of C9: disconnect() called on a processor that is
\* already disconnected changes none of its fields
C9_DisconnectIdempotent ==
    [][(/\ epoch' = epoch + 1
        /\ <<sourceNode, captureNode, audioContext, chunksReceived, startTime>>
               = <<0, 0, 0, 0, 0>>)
          => UNCHANGED <<sourceNode, captureNode, audioContext, chunksReceived,
                         startTime, worklets, ports, delivered>>]_vars

\* C10: a START_CAPTURE whose source acquisition failed (no active tab, capture
\* API missing, chrome.runtime.lastError set, null stream) is answered with
\* success false and an error message, called chrome.tabCapture.capture at most
\* once, and sent no START_AUDIO_PROCESSING.
C10_AcquisitionFailureReported ==
    \A r \in 1..Len(requests) :
        requests[r].failure \in AcquisitionFailures
            => /\ requests[r].response.sent
               /\ ~requests[r].response.success
               /\ requests[r].response.error # ""
               /\ requests[r].captureCalls <= 1
               /\ ~StartAudioProcessingSent(r)

\* C10 witness: one request failed on chrome.runtime.lastError, one on a null
\* stream, and both have been answered.
C10_Witness ==
    /\ \E r \in 1..Len(requests) :
          requests[r].failure = "lastError" /\ requests[r].response.sent
    /\ \E r \in 1..Len(requests) :
          requests[r].failure = "nullStream" /\ requests[r].captureCalls = 1

-----------------------------------------------------------------------------
(* Claims about the stream error handler, checked under SpecReconnect *)

\* C16: with a source that keeps failing, at most maxReconnectAttempts
\* reconnect attempts are made, each after a longer wait than the one before,
\* and once the source has failed more often than that the terminal failure
\* has been reported.
C16_BoundedBackoff ==
    /\ Len(waits) <= maxReconnectAttempts
    /\ \A i, j \in 1..Len(waits) : i < j => waits[i] < waits[j]
    /\ streamErrors > maxReconnectAttempts => failuresNotified >= 1

\* what the code keeps of C16: the attempts made while no restartCapture()
\* has returned wait longer and longer, and there are at most
\* maxReconnectAttempts of them
C16_BackoffUntilRestart ==
    restartsSent = 0 =>
        /\ Len(waits) <= maxReconnectAttempts
        /\ \A i, j \in 1..Len(waits) : i < j => waits[i] < waits[j]

-----------------------------------------------------------------------------
(* Claims about the delivery path, checked under SpecBridge *)

\* C17: the delivery path never holds more than messageQueueSize pending
\* chunks, however slowly the consumer takes them.
C17_BoundedQueue == Len(runtimeQueue) <= messageQueueSize

-----------------------------------------------------------------------------
(* Claims about PerformanceMonitor, checked under SpecMonitor *)

\* the last n elements of a sequence
LastValues(seq, n) == SubSeq(seq, Len(seq) - n + 1, Len(seq))

\* C18: the window kept for a metric holds exactly the most recent
\* min(n, historySize) of the n values recorded for it, in recording order; a
\* metric nothing was recorded for has no window. The window of a metric is
\* thus decided by that metric's own records alone.
C18_RollingWindow ==
    \A m \in Metrics :
        LET n == Len(recorded[m])
        IN  IF n = 0
            THEN m \notin DOMAIN measurements
            ELSE /\ m \in DOMAIN measurements
                 /\ Len(measurements[m]) <= historySize
                 /\ measurements[m] =
                        LastValues(recorded[m], IF n < historySize THEN n ELSE historySize)

\* recording on one metric leaves the window of every other metric as it was
C18_OtherMetricsUnchanged ==
    [][\A m \in Metrics :
          recorded'[m] = recorded[m]
              => /\ (m \in DOMAIN measurements') = (m \in DOMAIN measurements)
                 /\ m \in DOMAIN measurements => measurements'[m] = measurements[m]]_vars

\* C18 witness: one metric has had more values recorded than the window
\* keeps, with the oldest one different from the others, and the other metric
\* has a window of its own.
C18_Witness ==
    /\ Len(recorded["chunkInterval"]) > historySize
    /\ recorded["chunkInterval"][1] # recorded["chunkInterval"][2]
    /\ Len(recorded["processingTime"]) > 0
    /\ "processingTime" \in DOMAIN measurements

-----------------------------------------------------------------------------
(* Claims about the popup's monitor, checked under SpecPopup *)

\* C19: once the monitor's callback has run, the timing consistency the popup
\* holds is max(0, 100 - 2 * |avgInterval - targetInterval|) of the average
\* interval it holds, with targetInterval = frameLength / sampleRate * 1000.
C19_TimingConsistency ==
    ticks > 0 =>
        FracEq(performanceMetrics.timingConsistency,
               consistencyAgainst(performanceMetrics.avgChunkInterval, targetInterval))

C19_InRange ==
    LET c == performanceMetrics.timingConsistency
    IN  c[2] > 0 /\ 0 <= c[1] /\ c[1] <= 100 * c[2]

\* the percentage is below 100 although the average interval is the target
C19_OnTargetBelow100 ==
    /\ performanceMetrics.totalChunks > 0
    /\ FracEq(performanceMetrics.avgChunkInterval, targetInterval)
    /\ ~FracEq(performanceMetrics.timingConsistency, <<100, 1>>)

-----------------------------------------------------------------------------
(* Claims that join the producer and the consumer, checked under SpecWorklet *)

\* every sample handed to process() so far is finite and within [-1, 1]
C21_InputInRange ==
    \A ch \in 1..2 : \A i \in 1..Len(fed[ch]) : ~BadSample(fed[ch][i])

\* the port message that carries chunk c
C21_PortMessage(c) ==
    [type |-> "audioChunk", chunk |-> Wire(c), original |-> c, worklet |-> 1,
     epoch |-> epoch]

-----------------------------------------------------------------------------
(* Claims about the accumulator for any chunk size, checked under           *)
(* SpecAccumulator                                                          *)

\* C22: after every process() call that returned, each channel buffer holds
\* fewer than chunkSize samples, and all channel buffers have the same length.
C22_NoBacklog ==
    ~threw =>
        /\ \A ch \in 1..Len(chunkBuffer) : Len(chunkBuffer[ch]) < chunkSize
        /\ \A ch \in 1..Len(chunkBuffer) : Len(chunkBuffer[ch]) = Len(chunkBuffer[1])

\* the first half of C22 alone, for input whose channel count never changed
C22_NoBacklogSteadyChannels ==
    (~threw /\ Len(fed[2]) \in {0, Len(fed[1])}) =>
        \A ch \in 1..Len(chunkBuffer) : Len(chunkBuffer[ch]) < chunkSize

\* what the code keeps of C22: no backlog while no frame is longer than a
\* chunk, and equal lengths while the channel count does not change
C22_NoBacklogShortFrames ==
    (~threw /\ Len(fed[2]) \in {0, Len(fed[1])} /\ chunkSize >= MaxFrame) =>
        /\ \A ch \in 1..Len(chunkBuffer) : Len(chunkBuffer[ch]) < chunkSize
        /\ \A ch \in 1..Len(chunkBuffer) : Len(chunkBuffer[ch]) = Len(chunkBuffer[1])

-----------------------------------------------------------------------------
(* More claims about the background service worker, checked under          *)
(* SpecBackground                                                           *)

\* the streams acquired and not stopped
LiveStreams == {i \in 1..Len(streams) : streams[i] = 0}

\* C23: at most one acquired stream is live at any time, and once a
\* stopCapture() has run every stream acquired before it has had its tracks
\* stopped.
C23_AtMostOneLiveStream ==
    /\ Cardinality(LiveStreams) <= 1
    /\ afterStop => LiveStreams = {}

\* C24: a START_CAPTURE that was answered with success false (the only one
\* received, no STOP_CAPTURE) leaves currentStream and currentTabId as they
\* were before it, leaves no acquired stream running, and getCaptureStatus
\* does not report isCapturing.
C24_FailedStartRolledBack ==
    (/\ Len(requests) = 1
     /\ stopCalls = 0
     /\ requests[1].pc = "done"
     /\ ~requests[1].response.success)
        => /\ currentStream = 0
           /\ currentTabId = 0
           /\ LiveStreams = {}
           /\ ~getCaptureStatus.isCapturing

\* what the code keeps of C24: a start that failed before a stream was
\* acquired leaves the manager as it was
C24_AcquisitionFailureRolledBack ==
    (/\ Len(requests) = 1
     /\ stopCalls = 0
     /\ requests[1].failure \in AcquisitionFailures)
        => /\ currentStream = 0
           /\ currentTabId = 0
           /\ LiveStreams = {}
           /\ ~getCaptureStatus.isCapturing

\* the chrome.offscreen.createDocument() calls made so far
CreateDocumentCalls ==
    SumSeq([r \in 1..Len(requests) |-> requests[r].createDocumentCalls])

\* C25: chrome.offscreen.createDocument is called at most once.
C25_CreateDocumentOnce == CreateDocumentCalls <= 1

\* the tab whose capture gave stream st
TabOfStream(st) ==
    requests[CHOOSE r \in 1..Len(requests) : requests[r].stream = st].tabId

\* the first half of C30: currentTabId is null exactly when currentStream is,
\* and it is the tab of the stream held
C30_TabIffStream ==
    /\ (currentTabId = 0) <=> (currentStream = 0)
    /\ currentStream # 0 => currentTabId = TabOfStream(currentStream)

\* C30: currentTabId is null exactly when currentStream is null; the tabId
\* returned by getCaptureStatus and the tabId carried by every
\* START_AUDIO_PROCESSING is the tab of the stream it goes with.
C30_TabOfHeldStream ==
    /\ C30_TabIffStream
    /\ getCaptureStatus.streamId # 0 =>
           getCaptureStatus.tabId = TabOfStream(getCaptureStatus.streamId)
    /\ \A i \in 1..Len(sentMessages) :
           sentMessages[i].type = "START_AUDIO_PROCESSING" =>
               sentMessages[i].tabId = TabOfStream(sentMessages[i].streamId)

-----------------------------------------------------------------------------
(* Claims about the background listener's answers, checked under           *)
(* SpecBackgroundFair                                                       *)

\* every message is answered at most once, and a handled one exactly once
C27_AnsweredOnce ==
    /\ \A r \in 1..Len(requests) :
           /\ requests[r].responses <= 1
           /\ requests[r].pc = "done" <=> requests[r].responses = 1
           /\ requests[r].response.sent <=> requests[r].responses = 1
    /\ lastReply.type # "none" => Len(lastReply.answers) = 1

\* the capture callback of request r has fired
CaptureCallbackFired(r) == requests[r].pc \notin {"tabsQuery", "capture"}

\* C27: the background listener calls sendResponse exactly once for every
\* message it has handled (START_CAPTURE whatever its outcome, STOP_CAPTURE,
\* GET_STATUS, other types), and again and again a moment comes at which
\* every START_CAPTURE whose capture callback has fired has been answered.
C27_ExactlyOneResponse ==
    /\ []C27_AnsweredOnce
    /\ []<>(\A r \in 1..Len(requests) :
               CaptureCallbackFired(r) => requests[r].response.sent)

\* C27 witness: a START_CAPTURE was answered after its createDocument() call,
\* another one failed in the capture callback, and a message of unknown type
\* was answered.
C27_Witness ==
    /\ \E r \in 1..Len(requests) :
          requests[r].createDocumentCalls = 1 /\ requests[r].responses = 1
    /\ \E r \in 1..Len(requests) :
          requests[r].failure = "lastError" /\ requests[r].responses = 1
    /\ lastReply.type = "OTHER"

-----------------------------------------------------------------------------
\* C28: the two full validators agree: for every chunk object,
\* AudioChunkValidator.validate(chunk).isValid is true exactly when
\* OffscreenAudioProcessor.validateChunkContract(chunk) returns true.
C28_ValidatorsAgree ==
    (vdone /\ vroot = "object") => (vvalidate = vcontract)

-----------------------------------------------------------------------------
\* C29: quick validation is weaker than full validation: every value for
\* which AudioChunkValidator.validate returns isValid == true makes
\* AudioChunkValidator.quickValidate return true.
C29_QuickWeakerThanFull ==
    (vdone /\ vvalidate) => vquick = Bool(TRUE)

\* validate accepted an object that is not the well-formed chunk: its
\* peakLevel property was removed
C29_Witness ==
    /\ vdone
    /\ vvalidate
    /\ vroot = "object"
    /\ "peakLevel" \notin vchunk.present
    /\ vquick = Bool(TRUE)

-----------------------------------------------------------------------------
\* C26: each message type is answered only by the component that handles
\* it: for START_CAPTURE, STOP_CAPTURE and GET_STATUS sent by the popup while
\* the offscreen document's listener is also registered, the response the
\* popup receives is the one of the background handler, never the offscreen
\* listener's {success: false, error: "Unknown message type"}.
C26_AnsweredByBackground ==
    \A i \in 1..Len(popupResponses) :
        popupResponses[i].bothListening =>
            /\ popupResponses[i].by = "background"
            /\ popupResponses[i].response # UnknownTypeReply

-----------------------------------------------------------------------------
(* Claims about PerformanceMonitor.getStats and clear, checked under        *)
(* SpecMonitor                                                              *)

\* the values of metric m that the window holds: the last historySize of
\* those recorded since construction or the last clear()
C31_Window(m) ==
    LastValues(recorded[m],
               IF Len(recorded[m]) < historySize THEN Len(recorded[m]) ELSE historySize)

\* what getStats returns for a window w, the average apart
C31_CountLatestMinMax(stats, w) ==
    /\ stats.t = "object"
    /\ stats.count = Len(w)
    /\ stats.count \in 1..historySize
    /\ stats.latest = w[Len(w)]
    /\ stats.min = MathMin(w)
    /\ stats.max = MathMax(w)

\* getStats is null exactly for the metrics without a record, and count,
\* latest, min and max are those of the window
C31_AllButAverage ==
    /\ \A m \in Metrics :
           (getStats(measurements, m).t = "null") <=> (recorded[m] = <<>>)
    /\ lastStats.metric # "none" =>
           \/ lastStats.stats.t = "null" /\ recorded[lastStats.metric] = <<>>
           \/ /\ recorded[lastStats.metric] # <<>>
              /\ C31_CountLatestMinMax(lastStats.stats, C31_Window(lastStats.metric))

\* C31: getStats(metric) returns null exactly when nothing has been recorded
\* for the metric since construction or the last clear(); otherwise count is
\* the window size (1..historySize), latest is the value recorded last, and
\* min <= average <= max over the window only; after clear() getStats
\* returns null for every metric.
C31_GetStats ==
    /\ C31_AllButAverage
    /\ (lastStats.metric # "none" /\ lastStats.stats.t = "object") =>
           /\ lastStats.stats.min <= lastStats.stats.average
           /\ lastStats.stats.average <= lastStats.stats.max

-----------------------------------------------------------------------------
(* Claims about the popup's monitoring timer, checked under SpecPopupCapture *)

\* a run of the interval callback while nothing is captured leaves the
\* interval cleared
C32_ClearedWhenStopped ==
    [][(~isCapturing /\ ticks' = ticks + 1) => ~monitoringInterval']_vars

\* C32: after a START_CAPTURE that succeeded the interval set by
\* startMonitoring stays set for as long as the popup is capturing: its
\* callback does not cancel it while capturing.
C32_MonitoringWhileCapturing == isCapturing => monitoringInterval

====
